---- MODULE Spec2Model ----
(***************************************************************************)
(* A model of raydar's renderer control contract: the Timer/Profiler of    *)
(* src/src/renderer/timing.rs, the progressive CPU renderer of             *)
(* src/src/renderer/cpu.rs and the single-shot Vulkan renderer of          *)
(* src/src/renderer/vulkan.rs, driven over a camera whose resolution can   *)
(* change between calls.                                                   *)
(*                                                                         *)
(* Conventions.                                                            *)
(*  - Option<T> is a sequence: None is <<>>, Some(x) is <<x>>.             *)
(*  - Instant::now() is the logical clock `now`; a Duration is a           *)
(*    difference of two clock values.  `now` is the latest value read; a   *)
(*    call reads the clock once and gets any value `at` from now on.       *)
(*  - f32 radiance is fixed point with Unit = 1.0; float rounding is not   *)
(*    modelled.                                                            *)
(*  - The field `touched` of a timer is a history field: it is TRUE iff    *)
(*    the timer's duration was assigned during the most recent call of     *)
(*    new_frame, render_sample or render_frame (or of the timer itself).   *)
(***************************************************************************)
EXTENDS Integers, Sequences, FiniteSets, TLC

VARIABLES
    now,                \* the latest value Instant::now() returned
    camera,             \* scene.camera: [resolution_x, resolution_y]
    profiler,           \* CpuRenderer.profiler
    frame_buffer,       \* CpuRenderer.frame_buffer : Option<Rgba32FImage>
    sample_count,       \* CpuRenderer.sample_count
    config,             \* CpuRenderer.config : [max_sample_count, max_bounces]
    pc,                 \* "idle", or "render_frame" inside render_frame's loop
    local_frame_buffer, \* render_frame's local `frame_buffer`
    vk_timer,           \* VulkanRenderer.timer : FrameTimer
    vk_bound_scene,     \* VulkanRenderer.bound_scene : Option<BoundScene>
    vk_sample_count,    \* VulkanRenderer.sample_count
    vk_panicked,        \* an unwrap() of the Vulkan renderer has panicked
    vk_calls,           \* history: render_sample calls since new_frame (2: two or more)
    stopwatch,          \* a free-standing Timer driven through its whole API
    last,               \* history: the most recent renderer or timer call and its result
    somes,              \* history: render_sample calls that returned Some since new_frame
    contrib,            \* history: how many samples each seed has drawn since new_frame
    frame_began,        \* history: Option of the clock value at the latest new_frame
    ordered,            \* history: no render_sample came before the first new_frame
    world,              \* scene.world
    objects,            \* scene.objects
    pp,                 \* the activation of CpuRenderer::per_pixel, with its history
    editor              \* EditorApp, with the position of its update handler

sceneVars == <<camera, world, objects>>
extraVars == <<pp, editor>>
cpuVars == <<profiler, frame_buffer, sample_count, config, pc, local_frame_buffer,
             somes, contrib, frame_began, ordered>>
vkVars == <<vk_timer, vk_bound_scene, vk_sample_count, vk_panicked, vk_calls>>
vars == <<now, camera, profiler, frame_buffer, sample_count, config, pc,
          local_frame_buffer, vk_timer, vk_bound_scene, vk_sample_count,
          vk_panicked, vk_calls, stopwatch, last, somes, contrib,
          frame_began, ordered, world, objects, pp, editor>>

\* ---------------------------------------------------------------- bounds

\* The clock runs from 0 to MaxTime.
MaxTime == 1
\* max_sample_count ranges over 0 .. MaxSamples.
MaxSamples == 2
\* end_multiple is called with a count in 1 .. MaxCount.
MaxCount == 2
\* The clock of the free-standing timer runs from 0 to MaxLap.
MaxLap == 3
\* The camera's coordinates stay within -MaxCoord .. MaxCoord.
MaxCoord == 3
\* zoom is called with a distance in -MaxZoom .. MaxZoom.
MaxZoom == 3
\* max_bounces ranges over 0 .. MaxBounces.
MaxBounces == 2

\* The camera's resolutions.  The renderers only compare a resolution with
\* a buffer's size, so two values a dimension show every case.
Widths == 1 .. 2
Heights == 1 .. 2

\* The random draws of a sample: two seeds, so that the samples of a frame differ.
Seeds == 0 .. 1

\* ---------------------------------------------------------------- Option

None == <<>>
Some(x) == <<x>>

\* ---------------------------------------------------------------- Timer

\* Timer::default()
TimerDefault == [start |-> None, duration |-> None, touched |-> FALSE]

\* Forget which timers the previous call ended.
Untouched(t) == [t EXCEPT !.touched = FALSE]

TimerStartClearing(t, at) == [t EXCEPT !.start = Some(at), !.duration = None]

\* Timer::start
TimerStart(t, at) == [t EXCEPT !.start = Some(at)]

\* Timer::start_if_not_started
TimerStartIfNotStarted(t, at) ==
    IF t.start = None THEN TimerStart(t, at) ELSE t

TimerEndUnchecked(t, at) ==
    [t EXCEPT !.duration = Some(IF t.start = None THEN 0 ELSE at - t.start[1]),
              !.touched = TRUE]

\* Timer::end
TimerEnd(t, at) ==
    IF t.start # None
    THEN [t EXCEPT !.duration = Some(at - t.start[1]), !.touched = TRUE]
    ELSE t

\* Timer::end_if_not_ended
TimerEndIfNotEnded(t, at) ==
    IF t.duration = None THEN TimerEnd(t, at) ELSE t

\* Timer::end_multiple
TimerEndMultiple(t, at, count) ==
    IF t.start # None
    THEN [t EXCEPT !.duration = Some((at - t.start[1]) \div count), !.touched = TRUE]
    ELSE t

\* Timer::duration
TimerDuration(t) == t.duration

\* The fields of a timer the program can observe.
TimerState(t) == <<t.start, t.duration>>

\* ---------------------------------------------------------------- Profiler

\* Profiler::default()
ProfilerDefault ==
    [frame_timer |-> TimerDefault, sample_timer |-> TimerDefault,
     prepare_timer |-> TimerDefault, render_timer |-> TimerDefault]

TimerNames == {"frame_timer", "sample_timer", "prepare_timer", "render_timer"}

\* Forget which timers the previous call ended.
UntouchedAll(p) == [n \in TimerNames |-> Untouched(p[n])]

\* The fields of a profiler the program can observe.
ProfilerState(p) == [n \in TimerNames |-> TimerState(p[n])]

\* ---------------------------------------------------------------- images

\* 1.0 in fixed point.
Unit == 2

Coords(w, h) == (0 .. w - 1) \X (0 .. h - 1)

Vec4Zero == <<0, 0, 0, 0>>

Vec4Add(a, b) == <<a[1] + b[1], a[2] + b[2], a[3] + b[3], a[4] + b[4]>>

\* Rgba32FImage::new / ImageBuffer::new: a zero-filled image.
ImageNew(w, h) ==
    [width |-> w, height |-> h, pixels |-> [c \in Coords(w, h) |-> Vec4Zero]]

\* The radiance levels a path can return: 0, 0.5, 1.0 and 2.5.
Radiance(i) ==
    CASE i % 4 = 0 -> 0
      [] i % 4 = 1 -> 1
      [] i % 4 = 2 -> Unit
      [] OTHER -> 2 * Unit + 1

\* per_pixel: the Vec4 (light, 1) of one path through pixel (x, y); the random
\* draws of the path are the sample's seed.
SampleColor(x, y, seed) ==
    <<Radiance(x + seed), Radiance(y + 2 * seed), Radiance(x + y + seed + 1), Unit>>

\* ((p / n as f32).clamp(0.0, 1.0) * 255.0) as u8.  With n = 0 the quotient is
\* NaN for p = 0 (cast to 0) and an infinity otherwise.
Tonemap(p, n) ==
    IF p <= 0 THEN 0
    ELSE IF p >= Unit * n THEN 255
    ELSE (p * 255) \div (Unit * n)

\* CpuRenderer::print_frame_buffer
PrintFrameBuffer(fb, n) ==
    [width |-> fb.width, height |-> fb.height,
     pixels |-> [c \in DOMAIN fb.pixels |->
                   <<Tonemap(fb.pixels[c][1], n), Tonemap(fb.pixels[c][2], n),
                     Tonemap(fb.pixels[c][3], n), Tonemap(fb.pixels[c][4], n)>>]]

FrameBufferAlwaysNew(fb, cam) == ImageNew(cam.resolution_x, cam.resolution_y)

\* CpuRenderer::frame_buffer: the stored buffer when its size is the camera's
\* resolution, a new zero-filled one otherwise.
FrameBuffer(fb, cam) ==
    IF fb # None
       /\ ~(fb[1].width # cam.resolution_x \/ fb[1].height # cam.resolution_y)
    THEN fb[1]
    ELSE ImageNew(cam.resolution_x, cam.resolution_y)

BlankFrameBufferNoFill(fb, cam) == FrameBuffer(fb, cam)

\* CpuRenderer::blank_frame_buffer
BlankFrameBuffer(fb, cam) ==
    LET b == FrameBuffer(fb, cam)
    IN  [b EXCEPT !.pixels = [c \in DOMAIN b.pixels |-> Vec4Zero]]

CapReachedStrict(count, max) == count > max

\* The guard of render_sample: sample_count >= max_sample_count.
CapReached(count, max) == count >= max

NextCountStuck(count) == count

\* self.sample_count += 1
NextCount(count) == count + 1

\* The pixel loop of render_next_sample.
Accumulate(fb, seed) ==
    [fb EXCEPT !.pixels = [c \in DOMAIN fb.pixels |->
                             Vec4Add(fb.pixels[c], SampleColor(c[1], c[2], seed))]]

\* CpuRenderer::render_next_sample at clock value `at`.
RenderNextSample(prof, fb, count, max, seed, at) ==
    LET p1 == [prof EXCEPT
                 !.prepare_timer = TimerEndIfNotEnded(@, at),
                 !.render_timer = TimerStartIfNotStarted(@, at),
                 !.sample_timer = TimerStart(@, at)]
        p2 == IF NextCount(count) = max
              THEN [p1 EXCEPT !.render_timer = TimerEnd(@, at),
                              !.frame_timer = TimerEnd(@, at)]
              ELSE p1
    IN  [profiler |-> [p2 EXCEPT !.sample_timer = TimerEnd(@, at)],
         frame_buffer |-> Accumulate(fb, seed),
         sample_count |-> NextCount(count)]

\* ---------------------------------------------------------------- history

Vec4Scale(k, a) == <<k * a[1], k * a[2], k * a[3], k * a[4]>>

ContribZero == [seed \in Seeds |-> 0]

\* One more sample drawn with `seed`.
ContribAdd(drawn, seed) == [drawn EXCEPT ![seed] = @ + 1]

\* The component-wise sum, at pixel c, of the colours of the samples drawn.
RECURSIVE ContribSum(_, _, _)
ContribSum(drawn, c, seeds) ==
    IF seeds = {} THEN Vec4Zero
    ELSE LET seed == CHOOSE x \in seeds : TRUE
         IN  Vec4Add(Vec4Scale(drawn[seed], SampleColor(c[1], c[2], seed)),
                     ContribSum(drawn, c, seeds \ {seed}))

\* A call, what it returned, and a note: for the CPU renderer what the call
\* did about the accumulation buffer ("kept" it, allocated the "first" one,
\* or replaced one of another size, "resized"), for the Vulkan renderer how
\* the device answered ("ok", "record_err", "panic").
Call(op, ret, alloc) == [op |-> op, ret |-> ret, alloc |-> alloc]

\* What CpuRenderer::frame_buffer does about the stored buffer.
Alloc(fb, cam) ==
    IF fb = None THEN "first"
    ELSE IF fb[1].width # cam.resolution_x \/ fb[1].height # cam.resolution_y
         THEN "resized"
         ELSE "kept"

\* ---------------------------------------------------------------- f32, vectors

\* Coordinates are lattice (integer) values and rays run along the axes, so
\* that every quantity below is exact.  Two f32 values that the slab test of
\* hit_cube produces for a ray parallel to a slab are kept: the infinities
\* and NaN.
Infinity == 1000000
NaN == 2000000

\* f32::min: the other operand when one is NaN.
FMin(a, b) == IF a = NaN THEN b ELSE IF b = NaN THEN a ELSE IF a < b THEN a ELSE b

\* f32::max: the other operand when one is NaN.
FMax(a, b) == IF a = NaN THEN b ELSE IF b = NaN THEN a ELSE IF a > b THEN a ELSE b

\* f32 division by a direction component (0, 1 or -1).
FDiv(n, d) ==
    IF d = 0 THEN (IF n = 0 THEN NaN ELSE IF n > 0 THEN Infinity ELSE 0 - Infinity)
    ELSE IF d > 0 THEN n \div d ELSE (0 - n) \div (0 - d)

\* The f32 comparison a < b (and b > a): false when an operand is NaN.
FLt(a, b) == a # NaN /\ b # NaN /\ a < b

Abs(a) == IF a < 0 THEN 0 - a ELSE a

\* f32::signum: 1.0 for +0.0 and above, -1.0 below.
Signum(a) == IF a >= 0 THEN 1 ELSE 0 - 1

\* A vector of NaN components, and the test for one.
NaNVec == <<NaN, NaN, NaN>>
IsNaNVec(a) == NaN \in {a[1], a[2], a[3]}

Vec3Zero == <<0, 0, 0>>

\* Vector and point arithmetic in f32: NaN when an operand is NaN.
Vec3Add(a, b) ==
    IF IsNaNVec(a) \/ IsNaNVec(b) THEN NaNVec
    ELSE <<a[1] + b[1], a[2] + b[2], a[3] + b[3]>>
Vec3Sub(a, b) ==
    IF IsNaNVec(a) \/ IsNaNVec(b) THEN NaNVec
    ELSE <<a[1] - b[1], a[2] - b[2], a[3] - b[3]>>
Vec3Scale(a, k) ==
    IF IsNaNVec(a) THEN NaNVec ELSE <<a[1] * k, a[2] * k, a[3] * k>>
Dot(a, b) == a[1] * b[1] + a[2] * b[2] + a[3] * b[3]

\* InnerSpace::normalize, on the vectors that occur: a vector along an axis
\* becomes the unit vector of that axis, the zero vector (0.0 / 0.0 in each
\* component) and a NaN vector become NaN; any other vector keeps its
\* direction (its length is not used).
Normalize(a) ==
    IF IsNaNVec(a) \/ a = Vec3Zero THEN NaNVec
    ELSE IF Cardinality({i \in 1 .. 3 : a[i] # 0}) = 1
    THEN [i \in 1 .. 3 |-> IF a[i] = 0 THEN 0 ELSE Signum(a[i])]
    ELSE a

\* mul_element_wise of two colours in fixed point.
MulElementWise(a, b) ==
    <<(a[1] * b[1]) \div Unit, (a[2] * b[2]) \div Unit, (a[3] * b[3]) \div Unit>>

\* f32::sqrt of a perfect square.
Sqrt(n) == CHOOSE r \in 0 .. n : r * r <= n /\ (r + 1) * (r + 1) > n

\* The unit vectors along the axes.
AxisDirs ==
    {<<1, 0, 0>>, <<0 - 1, 0, 0>>, <<0, 1, 0>>, <<0, 0 - 1, 0>>, <<0, 0, 1>>, <<0, 0, 0 - 1>>}

\* ---------------------------------------------------------------- Ray

\* Ray::at
ray_at(ray, t) == Vec3Add(ray.origin, Vec3Scale(ray.direction, t))

\* Ray::hit_sphere
hit_sphere(ray, sphere) ==
    LET a == Dot(ray.direction, ray.direction)
        k == Dot(ray.origin, ray.direction) - Dot(ray.direction, sphere.center)
        c == Dot(ray.origin, ray.origin) - 2 * Dot(ray.origin, sphere.center)
                + Dot(sphere.center, sphere.center) - sphere.radius * sphere.radius
        discriminant == k * k - a * c
    IN  IF discriminant < 0 THEN None
        ELSE LET sqrt_discriminant == Sqrt(discriminant)
                 t1 == FDiv(0 - k - sqrt_discriminant, a)
                 t2 == FDiv(0 - k + sqrt_discriminant, a)
             IN  IF t1 >= 0 THEN Some(t1)
                 ELSE IF t2 >= 0 THEN Some(t2)
                 ELSE None

HitCubeEntryOnly(ray, cube) ==
    LET half == cube.side_length \div 2
        half_size == <<half, half, half>>
        min == Vec3Sub(cube.center, half_size)
        max == Vec3Add(cube.center, half_size)
        t1 == [i \in 1 .. 3 |-> FDiv(min[i] - ray.origin[i], ray.direction[i])]
        t2 == [i \in 1 .. 3 |-> FDiv(max[i] - ray.origin[i], ray.direction[i])]
        tmin == FMax(FMax(FMin(t1[1], t2[1]), FMin(t1[2], t2[2])), FMin(t1[3], t2[3]))
        tmax == FMin(FMin(FMax(t1[1], t2[1]), FMax(t1[2], t2[2])), FMax(t1[3], t2[3]))
    IN  IF FLt(tmax, 0) THEN None
        ELSE IF FLt(tmax, tmin) THEN None
        ELSE Some(tmin)

\* Ray::hit_cube
hit_cube(ray, cube) ==
    LET half == cube.side_length \div 2
        half_size == <<half, half, half>>
        min == Vec3Sub(cube.center, half_size)
        max == Vec3Add(cube.center, half_size)
        t1 == [i \in 1 .. 3 |-> FDiv(min[i] - ray.origin[i], ray.direction[i])]
        t2 == [i \in 1 .. 3 |-> FDiv(max[i] - ray.origin[i], ray.direction[i])]
        tmin == FMax(FMax(FMin(t1[1], t2[1]), FMin(t1[2], t2[2])), FMin(t1[3], t2[3]))
        tmax == FMin(FMin(FMax(t1[1], t2[1]), FMax(t1[2], t2[2])), FMax(t1[3], t2[3]))
    IN  IF FLt(tmax, 0) THEN None
        ELSE IF FLt(tmax, tmin) THEN None
        ELSE IF FLt(tmin, 0) THEN Some(tmax)
        ELSE Some(tmin)

\* Ray::hit
hit(ray, object) ==
    IF object.geometry.kind = "Sphere"
    THEN hit_sphere(ray, object.geometry)
    ELSE hit_cube(ray, object.geometry)

\* ---------------------------------------------------------------- World

\* World::sample: Some(colour), or None when the call panics (todo!()).
\* For the sky, the cosine between an axis direction and unit_y is the
\* direction's y, and lerp(bottom, top, (cosine + 1) * 0.5) follows.
WorldSample(w, ray) ==
    CASE w.kind = "SkyColor" ->
           LET twice == ray.direction[2] + 1
           IN  Some([i \in 1 .. 3 |->
                       w.bottom_color[i]
                         + ((w.top_color[i] - w.bottom_color[i]) * twice) \div 2])
      [] w.kind = "SolidColor" -> Some(w.color)
      [] w.kind = "Transparent" -> None

\* ---------------------------------------------------------------- trace_ray

\* filter_map(|o| ray.hit(o).map(|t| (o, t))): the objects hit, in scene
\* order, each with its distance.
RECURSIVE HitsFrom(_, _, _)
HitsFrom(ray, objs, i) ==
    IF i > Len(objs) THEN <<>>
    ELSE LET h == hit(ray, objs[i])
         IN  IF h = None THEN HitsFrom(ray, objs, i + 1)
             ELSE <<[object |-> i, t |-> h[1]]>> \o HitsFrom(ray, objs, i + 1)

RECURSIVE MinByKeyLast(_, _, _)
MinByKeyLast(cands, i, best) ==
    IF i > Len(cands) THEN best
    ELSE MinByKeyLast(cands, i + 1, IF cands[i].t <= best.t THEN cands[i] ELSE best)

\* Iterator::min_by_key over the distances: a later candidate replaces the
\* best so far only when its key is smaller.
RECURSIVE MinByKey(_, _, _)
MinByKey(cands, i, best) ==
    IF i > Len(cands) THEN best
    ELSE MinByKey(cands, i + 1, IF cands[i].t < best.t THEN cands[i] ELSE best)

\* The normal closest_hit computes before it looks at the ray: for a sphere
\* from the centre to the hit position, for a cube that of the face nearest
\* to the hit position.
GeometricNormal(world_position, object) ==
    IF object.geometry.kind = "Sphere"
    THEN Normalize(Vec3Sub(world_position, object.geometry.center))
    ELSE LET local_position == Vec3Sub(world_position, object.geometry.center)
             half_side == object.geometry.side_length \div 2
             x_dist == Abs(Abs(local_position[1]) - half_side)
             y_dist == Abs(Abs(local_position[2]) - half_side)
             z_dist == Abs(Abs(local_position[3]) - half_side)
         IN  IF x_dist < y_dist /\ x_dist < z_dist
             THEN <<Signum(local_position[1]), 0, 0>>
             ELSE IF y_dist < z_dist
             THEN <<0, Signum(local_position[2]), 0>>
             ELSE <<0, 0, Signum(local_position[3])>>

ClosestHitNoFlip(ray, hit_distance, objs, index) ==
    LET world_position == ray_at(ray, hit_distance)
        normal == GeometricNormal(world_position, objs[index])
    IN  Some([hit_distance |-> hit_distance,
              is_front_face |-> Dot(normal, ray.direction) <= 0,
              world_position |-> world_position,
              world_normal |-> normal,
              object |-> index])

\* CpuRenderer::closest_hit.  The field `object` is the object's index in
\* scene.objects.
closest_hit(ray, hit_distance, objs, index) ==
    LET world_position == ray_at(ray, hit_distance)
        normal == GeometricNormal(world_position, objs[index])
        is_front_face == Dot(normal, ray.direction) <= 0
    IN  Some([hit_distance |-> hit_distance,
              is_front_face |-> is_front_face,
              world_position |-> world_position,
              world_normal |-> IF ~is_front_face THEN Vec3Scale(normal, 0 - 1) ELSE normal,
              object |-> index])

\* CpuRenderer::miss
miss(ray) == None

\* CpuRenderer::trace_ray
trace_ray(ray, objs) ==
    LET cands == HitsFrom(ray, objs, 1)
    IN  IF cands = <<>> THEN miss(ray)
        ELSE LET best == MinByKey(cands, 2, cands[1])
             IN  closest_hit(ray, best.t, objs, best.object)

\* ---------------------------------------------------------------- Camera

\* The camera's position and target are lattice points of the x axis, so
\* that the length of position - target is exact; a coordinate never leaves
\* -MaxCoord .. MaxCoord.
CamPoints == {<<x, 0, 0>> : x \in (0 - MaxCoord) .. MaxCoord}
InRange(p) == IsNaNVec(p) \/ p \in CamPoints

\* InnerSpace::magnitude
Magnitude(v) == IF IsNaNVec(v) THEN NaN ELSE Sqrt(Dot(v, v))

\* The matrices are kept as the expressions that compute them:
\* Matrix4::look_at_lh, cgmath::perspective, cgmath::ortho and
\* SquareMatrix::invert.  The clip planes (1 or 2, 10 or 20), the field of
\* view (90) and the size (1) that occur give an invertible projection, and a view with a NaN entry has a NaN determinant,
\* which invert() does not take for zero: invert() returns Some.
LookAtLh(position, target, up) == <<"look_at_lh", position, target, up>>
Perspective(fov, aspect_ratio, near, far) == <<"perspective", fov, aspect_ratio, near, far>>
Ortho(left, right, bottom, top, near, far) == <<"ortho", left, right, bottom, top, near, far>>
Invert(m) == Some(<<"invert", m>>)

\* The projection matrix of update_matrices; Camera::aspect_ratio is in fixed
\* point.
ProjMatrix(cam) ==
    LET aspect_ratio == (cam.resolution_x * Unit) \div cam.resolution_y
        near == cam.near_clip
        far == cam.far_clip
    IN  IF cam.projection[1] = "Perspective"
        THEN Perspective(cam.projection[2], aspect_ratio, near, far)
        ELSE LET size == cam.projection[2]
             IN  Ortho(0 - size * aspect_ratio, size * aspect_ratio, 0 - size, size, near, far)

\* Camera::update_matrices
update_matrices(cam) ==
    LET view_matrix == LookAtLh(cam.position, cam.target, cam.up)
        proj_matrix == ProjMatrix(cam)
    IN  [cam EXCEPT !.view_matrix = view_matrix,
                    !.proj_matrix = proj_matrix,
                    !.inverse_view_matrix = Invert(view_matrix)[1],
                    !.inverse_proj_matrix = Invert(proj_matrix)[1]]

\* Camera::new
CameraNew(position, target, up, resolution_x, resolution_y, near_clip, far_clip, projection) ==
    update_matrices([position |-> position, target |-> target, up |-> up,
                     resolution_x |-> resolution_x, resolution_y |-> resolution_y,
                     near_clip |-> near_clip, far_clip |-> far_clip,
                     projection |-> projection,
                     view_matrix |-> <<"identity">>, proj_matrix |-> <<"identity">>,
                     inverse_view_matrix |-> <<"identity">>,
                     inverse_proj_matrix |-> <<"identity">>])

ZoomNoUpdate(cam, distance) ==
    LET camera_to_target == Vec3Sub(cam.position, cam.target)
        camera_to_target_distance == Magnitude(camera_to_target)
    IN  IF FLt(distance, camera_to_target_distance)
        THEN [cam EXCEPT !.position =
                Vec3Add(cam.position, Vec3Scale(Normalize(camera_to_target), distance))]
        ELSE cam

\* Camera::zoom, on the camera value.
Zoom(cam, distance) ==
    LET camera_to_target == Vec3Sub(cam.position, cam.target)
        camera_to_target_distance == Magnitude(camera_to_target)
    IN  IF FLt(distance, camera_to_target_distance)
        THEN update_matrices(
               [cam EXCEPT !.position =
                  Vec3Add(cam.position, Vec3Scale(Normalize(camera_to_target), distance))])
        ELSE cam

\* Camera::pan, on the camera value.  pan_delta, which the code computes from
\* the screen delta through the inverse matrices, is any step along the axis.
Pan(cam, pan_delta) ==
    update_matrices([cam EXCEPT !.position = Vec3Add(cam.position, pan_delta),
                                !.target = Vec3Add(cam.target, pan_delta)])

\* Camera::orbit, on the camera value: the offset keeps its length and turns
\* about the target.  Of the turns, the model has the ones that keep the
\* offset on the x axis: by 0 (turn = 1) and by half a circle (turn = -1).
\* A zero offset has elevation asin(0.0 / 0.0), which is NaN.
Orbit(cam, turn) ==
    LET offset == Vec3Sub(cam.position, cam.target)
        radius == Magnitude(offset)
        new_offset == IF radius = 0 THEN NaNVec ELSE Vec3Scale(offset, turn)
    IN  update_matrices([cam EXCEPT !.position = Vec3Add(cam.target, new_offset)])

\* ---------------------------------------------------------------- Scene

\* Colours in fixed point.
White == <<Unit, Unit, Unit>>
Black == Vec3Zero

\* Material.  roughness, metallic and transmission are 0.0 or 1.0 in fixed
\* point, so that each `rand < x` of per_pixel has one outcome; ior is the
\* fraction <<numerator, denominator>>.
Material(albedo, emission_color, emission_strength, transmission, roughness, ior) ==
    [albedo |-> albedo, roughness |-> roughness, metallic |-> 0,
     emission_color |-> emission_color, emission_strength |-> emission_strength,
     transmission |-> transmission, ior |-> ior]

\* Object with a Geometry::Sphere and with a Geometry::Cube.
SphereObject(center, radius, material) ==
    [geometry |-> [kind |-> "Sphere", center |-> center, radius |-> radius],
     material |-> material]
CubeObject(center, side_length, material) ==
    [geometry |-> [kind |-> "Cube", center |-> center, side_length |-> side_length],
     material |-> material]

\* The object lists of the scenes: none; a black sphere in front of the
\* camera's first position and a lamp (white, emitting white at strength
\* 1.0) behind it; a lamp cube and a white sphere that share their centre, so
\* that a ray along an axis hits both at the same distance, in both orders;
\* a sphere of rough glass (transmission 1.0, roughness 1.0, ior 1.5); a cube
\* of smooth glass (roughness 0.0, ior 1.5).
ObjectLists ==
    {<<>>,
     <<SphereObject(Vec3Zero, 1, Material(Black, Black, 0, 0, Unit, <<3, 2>>)), CubeObject(<<0 - 6, 0, 0>>, 2, Material(White, White, Unit, 0, Unit, <<3, 2>>))>>,
     <<CubeObject(Vec3Zero, 2, Material(White, White, Unit, 0, Unit, <<3, 2>>)), SphereObject(Vec3Zero, 1, Material(White, Black, 0, 0, Unit, <<3, 2>>))>>,
     <<SphereObject(Vec3Zero, 1, Material(White, Black, 0, 0, Unit, <<3, 2>>)), CubeObject(Vec3Zero, 2, Material(White, White, Unit, 0, Unit, <<3, 2>>))>>,
     <<SphereObject(Vec3Zero, 1, Material(White, Black, 0, Unit, Unit, <<3, 2>>))>>,
     <<CubeObject(Vec3Zero, 2, Material(White, Black, 0, Unit, 0, <<3, 2>>))>>}

\* World, with every field in each variant so that two worlds compare.
SkyWorld == [kind |-> "SkyColor", top_color |-> <<0, 0, Unit>>, bottom_color |-> White, color |-> Black]
SolidWorld(color) == [kind |-> "SolidColor", top_color |-> Black, bottom_color |-> Black, color |-> color]
Worlds ==
    {SkyWorld, SolidWorld(<<Unit, 0, 0>>),
     [kind |-> "Transparent", top_color |-> Black, bottom_color |-> Black, color |-> Black]}

\* The activation of per_pixel: its locals (ray, light, attenuation, the loop
\* index bounce) and, as history, the latest trace_ray call (traced), the
\* latest World::sample result (sampled), the number of trace_ray calls
\* (intersections), of misses and of world contributions added (world_adds),
\* and the light with each emission scaled by the attenuation of the hits
\* before it (scaled_light).  pc is "idle" before the first call, "loop" at the
\* head of the for loop, "break" after the break, "done" after the return and
\* "panicked" after a panic.  shade is the history of the latest hit's choice
\* of direction: the draws, what can_refract returned if it was called,
\* whether refract was called and with which arguments, the direction chosen
\* and the vector it was normalised from.
PerPixelIdle ==
    [pc |-> "idle",
     ray |-> [origin |-> Vec3Zero, direction |-> Vec3Zero],
     light |-> Vec3Zero, attenuation |-> White, bounce |-> 0,
     traced |-> None, sampled |-> None, intersections |-> 0, misses |-> 0,
     world_adds |-> 0, scaled_light |-> Vec3Zero, result |-> None,
     shade |-> None]

\* EditorApp as main() builds it, at the start of its first update.  pc is
\* the part of update that runs next: the inspector panel, the viewport, and
\* the two calls of rerender.  Two fields are history: dirty, the scene has
\* changed since the renderer's latest new_frame (or there has been none),
\* and mutated, the scene has changed during the current update.  repaint is
\* the egui context's pending repaint: the next update runs without waiting
\* for input.  It is set before the first update, which eframe always runs,
\* and by ctx.request_repaint(); the start of an update consumes it.
EditorAppNew ==
    [pc |-> "inspector", needs_rerender |-> TRUE,
     should_constantly_rerender |-> FALSE, rendered_scene_handle |-> FALSE,
     dirty |-> TRUE, mutated |-> FALSE, repaint |-> TRUE]

\* ---------------------------------------------------------------- Init

Init ==
    /\ now = 0
    /\ camera \in {CameraNew(<<0 - 3, 0, 0>>, Vec3Zero, <<0, 1, 0>>, w, h,
                              1, 10, <<"Perspective", 90>>) :
                      w \in Widths, h \in Heights}
    /\ profiler = ProfilerDefault
    /\ frame_buffer = None
    /\ sample_count = 0
    /\ config \in [max_sample_count : 0 .. MaxSamples, max_bounces : {1}]
    /\ pc = "idle"
    /\ local_frame_buffer = None
    /\ vk_timer = [frame |-> TimerDefault, sample |-> TimerDefault]
    /\ vk_bound_scene = None
    /\ vk_sample_count = 0
    /\ vk_panicked = FALSE
    /\ vk_calls = 0
    /\ stopwatch = TimerDefault
    /\ last = Call("new", None, "kept")
    /\ somes = 0
    /\ contrib = ContribZero
    /\ frame_began = None
    /\ ordered = TRUE
    /\ world = SkyWorld
    /\ objects = <<>>
    /\ pp = PerPixelIdle
    /\ editor = EditorAppNew

\* ---------------------------------------------------------------- clock, scene

\* The values Instant::now() can return next: the clock is monotonic.
Instants == now .. MaxTime

\* No renderer call holds the scene borrowed.
SceneFree == pc = "idle" /\ pp.pc \in {"idle", "done"}

\* Camera::set_resolution_x
set_resolution_x(v) ==
    /\ SceneFree
    /\ camera' = update_matrices([camera EXCEPT !.resolution_x = v])
    /\ UNCHANGED <<now, world, objects, cpuVars, vkVars, stopwatch, last, extraVars>>

\* Camera::set_resolution_y
set_resolution_y(v) ==
    /\ SceneFree
    /\ camera' = update_matrices([camera EXCEPT !.resolution_y = v])
    /\ UNCHANGED <<now, world, objects, cpuVars, vkVars, stopwatch, last, extraVars>>

\* What a camera mutator leaves alone.
CameraOnly ==
    UNCHANGED <<now, world, objects, cpuVars, vkVars, stopwatch, last, extraVars>>

\* Camera::set_position
set_position(position) ==
    /\ SceneFree
    /\ camera' = update_matrices([camera EXCEPT !.position = position])
    /\ CameraOnly

\* Camera::set_target
set_target(target) ==
    /\ SceneFree
    /\ camera' = update_matrices([camera EXCEPT !.target = target])
    /\ CameraOnly

\* Camera::set_up
set_up(up) ==
    /\ SceneFree
    /\ camera' = update_matrices([camera EXCEPT !.up = up])
    /\ CameraOnly

\* Camera::set_near_clip
set_near_clip(near_clip) ==
    /\ SceneFree
    /\ camera' = update_matrices([camera EXCEPT !.near_clip = near_clip])
    /\ CameraOnly

\* Camera::set_far_clip
set_far_clip(far_clip) ==
    /\ SceneFree
    /\ camera' = update_matrices([camera EXCEPT !.far_clip = far_clip])
    /\ CameraOnly

\* Camera::set_projection
set_projection(projection) ==
    /\ SceneFree
    /\ camera' = update_matrices([camera EXCEPT !.projection = projection])
    /\ CameraOnly

\* Camera::pan
pan(pan_delta) ==
    /\ SceneFree
    /\ InRange(Pan(camera, pan_delta).position)
    /\ InRange(Pan(camera, pan_delta).target)
    /\ camera' = Pan(camera, pan_delta)
    /\ CameraOnly

\* Camera::orbit
orbit(turn) ==
    /\ SceneFree
    /\ InRange(Orbit(camera, turn).position)
    /\ camera' = Orbit(camera, turn)
    /\ CameraOnly

\* The distances zoom is called with: the viewport passes the drag or the
\* scroll delta, of either sign.
ZoomDistances == (0 - MaxZoom) .. MaxZoom

\* Camera::zoom
zoom(distance) ==
    /\ SceneFree
    /\ InRange(Zoom(camera, distance).position)
    /\ camera' = Zoom(camera, distance)
    /\ CameraOnly

CameraNext ==
    \/ \E position \in CamPoints : set_position(position)
    \/ \E target \in CamPoints : set_target(target)
    \/ \E up \in {<<0, 1, 0>>, <<0, 0, 1>>} : set_up(up)
    \/ \E v \in Widths : set_resolution_x(v)
    \/ \E v \in Heights : set_resolution_y(v)
    \/ \E near_clip \in {1, 2} : set_near_clip(near_clip)
    \/ \E far_clip \in {10, 20} : set_far_clip(far_clip)
    \/ \E projection \in {<<"Perspective", 90>>, <<"Orthographic", 1>>} :
          set_projection(projection)
    \/ \E pan_delta \in {<<1, 0, 0>>, <<0 - 1, 0, 0>>} : pan(pan_delta)
    \/ \E turn \in {1, 0 - 1} : orbit(turn)
    \/ \E distance \in ZoomDistances : zoom(distance)

CameraSpec == Init /\ [][CameraNext]_vars


\* ---------------------------------------------------------------- CpuRenderer

\* CpuRenderer::set_max_sample_count
set_max_sample_count(count) ==
    /\ pc = "idle"
    /\ config' = [config EXCEPT !.max_sample_count = count]
    /\ UNCHANGED <<now, sceneVars, profiler, frame_buffer, sample_count, pc,
                   local_frame_buffer, somes, contrib, frame_began, ordered,
                   vkVars, stopwatch, last, extraVars>>

\* What new_frame does to the profiler.
NewFrameTimers(prof, at) ==
    [prof EXCEPT !.frame_timer = TimerStart(@, at),
                 !.prepare_timer = TimerStart(@, at)]

\* What new_frame does besides allocating the buffer, and to the history.
NewFrameEffect(at) ==
    /\ now' = at
    /\ profiler' = NewFrameTimers(UntouchedAll(profiler), at)
    /\ sample_count' = 0
    /\ somes' = 0
    /\ contrib' = ContribZero
    /\ frame_began' = Some(at)

\* CpuRenderer::new_frame, whoever calls it.
NewFrameCall(at) ==
    /\ pc = "idle"
    /\ NewFrameEffect(at)
    /\ frame_buffer' = Some(BlankFrameBuffer(frame_buffer, camera))
    /\ last' = Call("new_frame", None, Alloc(frame_buffer, camera))
    /\ UNCHANGED <<sceneVars, config, pc, local_frame_buffer, ordered, vkVars,
                   stopwatch, pp>>

\* CpuRenderer::new_frame, called on its own.
new_frame(at) == NewFrameCall(at) /\ UNCHANGED editor

\* CpuRenderer::render_sample, whoever calls it.
RenderSampleCall(seed, at) ==
    /\ pc = "idle"
    /\ IF CapReached(sample_count, config.max_sample_count)
       THEN /\ profiler' = UntouchedAll(profiler)
            /\ last' = Call("render_sample", None, "kept")
            /\ UNCHANGED <<now, frame_buffer, sample_count, somes, contrib>>
       ELSE LET fb == FrameBuffer(frame_buffer, camera)
                r == RenderNextSample(UntouchedAll(profiler), fb, sample_count,
                                      config.max_sample_count, seed, at)
            IN  /\ now' = at
                /\ profiler' = r.profiler
                /\ sample_count' = r.sample_count
                /\ frame_buffer' = Some(r.frame_buffer)
                /\ last' = Call("render_sample",
                                Some(PrintFrameBuffer(r.frame_buffer, r.sample_count)),
                                Alloc(frame_buffer, camera))
                /\ somes' = somes + 1
                /\ contrib' = ContribAdd(contrib, seed)
    /\ ordered' = (ordered /\ frame_began # None)
    /\ UNCHANGED <<sceneVars, config, pc, local_frame_buffer,
                   frame_began, vkVars, stopwatch, pp>>

\* CpuRenderer::render_sample, called on its own.
render_sample(seed, at) == RenderSampleCall(seed, at) /\ UNCHANGED editor

\* CpuRenderer::render_frame up to its loop: new_frame, then the buffer is
\* taken out of self.frame_buffer.
render_frame_enter(at) ==
    /\ pc = "idle"
    /\ NewFrameEffect(at)
    /\ local_frame_buffer' =
          Some(FrameBuffer(Some(BlankFrameBuffer(frame_buffer, camera)), camera))
    /\ frame_buffer' = None
    /\ pc' = "render_frame"
    /\ last' = Call("new_frame", None, Alloc(frame_buffer, camera))
    /\ UNCHANGED <<sceneVars, config, ordered, vkVars, stopwatch, extraVars>>

\* One iteration of render_frame's loop.
render_frame_loop(seed, at) ==
    /\ pc = "render_frame"
    /\ sample_count < config.max_sample_count
    /\ LET fb == local_frame_buffer[1]
           r == RenderNextSample(profiler, fb, sample_count,
                                 config.max_sample_count, seed, at)
       IN  /\ now' = at
           /\ profiler' = r.profiler
           /\ sample_count' = r.sample_count
           /\ local_frame_buffer' = Some(r.frame_buffer)
           /\ contrib' = ContribAdd(contrib, seed)
    /\ last' = Call("render_next_sample", None, "kept")
    /\ UNCHANGED <<sceneVars, frame_buffer, config, pc, somes,
                   frame_began, ordered, vkVars, stopwatch, extraVars>>

\* render_frame after its loop: print the buffer, store it back, return.
render_frame_return ==
    /\ pc = "render_frame"
    /\ ~(sample_count < config.max_sample_count)
    /\ last' = Call("render_frame",
                    Some(PrintFrameBuffer(local_frame_buffer[1], sample_count)), "kept")
    /\ frame_buffer' = local_frame_buffer
    /\ local_frame_buffer' = None
    /\ pc' = "idle"
    /\ UNCHANGED <<now, sceneVars, profiler, sample_count, config, somes,
                   contrib, frame_began, ordered, vkVars, stopwatch, extraVars>>

Next ==
    \/ \E v \in Widths : set_resolution_x(v)
    \/ \E v \in Heights : set_resolution_y(v)
    \/ \E c \in 0 .. MaxSamples : set_max_sample_count(c)
    \/ \E at \in Instants : new_frame(at)
    \/ \E seed \in Seeds, at \in Instants : render_sample(seed, at)
    \/ \E at \in Instants : render_frame_enter(at)
    \/ \E seed \in Seeds, at \in Instants : render_frame_loop(seed, at)
    \/ render_frame_return

Spec == Init /\ [][Next]_vars

\* ---------------------------------------------------------------- per_pixel

\* Scene loading (Scene is deserialised from a scene file or edited between
\* frames): the history of the calls on the old scene is dropped.
set_scene(w, objs) ==
    /\ SceneFree
    /\ world' = w
    /\ objects' = objs
    /\ pp' = PerPixelIdle
    /\ UNCHANGED <<now, camera, cpuVars, vkVars, stopwatch, last, editor>>

\* CpuRenderer::set_max_bounces
set_max_bounces(bounces) ==
    /\ SceneFree
    /\ config' = [config EXCEPT !.max_bounces = bounces]
    /\ pp' = PerPixelIdle
    /\ UNCHANGED <<now, sceneVars, profiler, frame_buffer, sample_count, pc,
                   local_frame_buffer, somes, contrib, frame_began, ordered,
                   vkVars, stopwatch, last, editor>>

\* per_pixel up to the for loop.  The direction the code computes from the
\* pixel and the camera's inverse matrices is an axis direction or a
\* diagonal of a coordinate plane; a diagonal is kept at its lattice length
\* (trace_ray's hit positions do not depend on the length) and is drawn only
\* where the arithmetic stays on the lattice: no sphere, no sky.
per_pixel_enter(direction) ==
    /\ SceneFree
    /\ ~IsNaNVec(camera.position)
    /\ direction \notin AxisDirs
         => /\ world.kind # "SkyColor"
            /\ \A i \in 1 .. Len(objects) : objects[i].geometry.kind # "Sphere"
    /\ pp' = [PerPixelIdle EXCEPT
                !.pc = "loop",
                !.ray = [origin |-> camera.position, direction |-> direction]]
    /\ UNCHANGED <<now, sceneVars, cpuVars, vkVars, stopwatch, last, editor>>

\* emission_color * emission_strength in fixed point.
Emission(material) ==
    [i \in 1 .. 3 |-> (material.emission_color[i] * material.emission_strength) \div Unit]

\* Refract::can_refract for a direction d (normalised by the caller; here at
\* its lattice length), a unit normal and the ratio ior = <<num, den>>:
\* ior * sin_theta <= 1.0 with sin_theta^2 = 1 - cos_theta^2 and
\* cos_theta = d . -normal / |d|, compared in squares.
CanRefract(d, normal, ior) ==
    ior[1] * ior[1] * (Dot(d, d) - Dot(d, normal) * Dot(d, normal))
        <= ior[2] * ior[2] * Dot(d, d)

\* Refract::refract: perpendicular + parallel; exact where d is along the
\* normal, where per_pixel_iterate lets it be called.
Refract(d, normal, ior) ==
    LET cos_theta == FMin(Dot(d, Vec3Scale(normal, 0 - 1)), 1)
        along == Vec3Add(d, Vec3Scale(normal, cos_theta))
        perpendicular == [i \in 1 .. 3 |-> (ior[1] * along[i]) \div ior[2]]
        parallel == Vec3Scale(normal, 0 - Sqrt(Abs(1 - Dot(perpendicular, perpendicular))))
    IN  Vec3Add(perpendicular, parallel)

UseRefractUnchecked(schlick, d, normal, ior) == schlick

\* reflection_coefficient < rand::random() && ray_direction.can_refract(..):
\* schlick is the outcome of the comparison with the draw.
UseRefract(schlick, d, normal, ior) == schlick /\ CanRefract(d, normal, ior)

\* The body of the for loop on a hit.  `random` is the random_in_unit_sphere()
\* draw that the chosen direction uses and schlick the outcome of
\* reflection_coefficient < rand; rand < x is false for x = 0.0 and true for
\* x = 1.0.  The offset of 0.0001 along `offset` is one lattice step.  An
\* un-normalised direction (the diffuse one) is kept as the unit vector of
\* its axis, or as the zero vector.  A ray whose direction is NaN ends the
\* model's activation (pc = "nan").
PerPixelHit(a, hit_record, random, schlick) ==
    LET material == objects[hit_record.object].material
        normal == hit_record.world_normal
        roughness == (material.roughness * material.roughness) \div (Unit * Unit)
        sum == Vec3Add(normal, random)
        diffuse_direction == IF Dot(sum, normal) < 0 THEN Vec3Scale(sum, 0 - 1) ELSE sum
        perfect_reflection ==
            Vec3Sub(a.ray.direction, Vec3Scale(normal, Dot(a.ray.direction, normal) * 2))
        transmission_ray == material.transmission > 0
        ior == IF hit_record.is_front_face
               THEN <<material.ior[2], material.ior[1]>> ELSE material.ior
        ray_direction == Normalize(a.ray.direction)
        asked == transmission_ray /\ schlick
        refracts == transmission_ray /\ UseRefract(schlick, ray_direction, normal, ior)
        used == IF refracts THEN "refract"
                ELSE IF transmission_ray \/ material.metallic > 0 THEN "specular"
                ELSE IF roughness > 0 THEN "diffuse" ELSE "specular"
        pre == CASE used = "refract" ->
                      Vec3Add(Refract(ray_direction, normal, ior), Vec3Scale(random, roughness))
                 [] used = "specular" ->
                      Vec3Add(perfect_reflection, Vec3Scale(random, roughness))
                 [] used = "diffuse" -> diffuse_direction
        direction == IF used = "diffuse" /\ pre = Vec3Zero THEN Vec3Zero ELSE Normalize(pre)
        offset == IF transmission_ray THEN direction ELSE normal
        new_direction == IF direction = Vec3Zero THEN normal ELSE direction
    IN  [a EXCEPT
           !.pc = IF IsNaNVec(new_direction) THEN "nan" ELSE a.pc,
           !.ray = [origin |-> Vec3Add(hit_record.world_position, offset),
                    direction |-> new_direction],
           !.attenuation = MulElementWise(a.attenuation, material.albedo),
           !.light = Vec3Add(a.light, Emission(material)),
           !.scaled_light = Vec3Add(a.scaled_light,
                                    MulElementWise(Emission(material), a.attenuation)),
           !.bounce = a.bounce + 1,
           !.shade = Some([transmission_ray |-> transmission_ray,
                           schlick |-> schlick,
                           can_refract |->
                               IF asked
                               THEN Some([d |-> ray_direction, n |-> normal, ior |-> ior,
                                          ret |-> CanRefract(ray_direction, normal, ior)])
                               ELSE None,
                           refract |->
                               IF refracts
                               THEN Some([d |-> ray_direction, n |-> normal, ior |-> ior])
                               ELSE None,
                           used |-> used, roughness |-> roughness,
                           pre |-> pre, normal |-> normal])]

\* The body of the for loop on a miss: World::sample panics or returns.
PerPixelMiss(a) ==
    LET sampled == WorldSample(world, a.ray)
    IN  IF sampled = None
        THEN [a EXCEPT !.pc = "panicked", !.misses = a.misses + 1]
        ELSE [a EXCEPT
                !.pc = "break",
                !.misses = a.misses + 1,
                !.sampled = sampled,
                !.world_adds = a.world_adds + 1,
                !.light = Vec3Add(a.light, MulElementWise(sampled[1], a.attenuation)),
                !.scaled_light = Vec3Add(a.scaled_light,
                                         MulElementWise(sampled[1], a.attenuation))]

\* One iteration of `for _ in 0..self.config.max_bounces`.  The random draws
\* are made on a hit only.  The Schlick coefficient is 1.0 at cos_theta = 0,
\* so the comparison with the draw is false there; the draws are bounded to
\* those that keep the next ray on the lattice: a refraction along the
\* normal, and an offset along the axis of the vector it perturbs.
per_pixel_iterate(random, schlick) ==
    /\ pp.pc = "loop"
    /\ pp.bounce < config.max_bounces
    /\ \E hit_record \in {trace_ray(pp.ray, objects)} :
       \E a \in {[pp EXCEPT !.traced = Some([ray |-> pp.ray, ret |-> hit_record]),
                            !.intersections = pp.intersections + 1]} :
          IF hit_record # None
          THEN \E b \in {PerPixelHit(a, hit_record[1], random, schlick)} :
               \E shade \in {b.shade[1]} :
                  /\ schlick => /\ shade.transmission_ray
                                /\ Dot(pp.ray.direction, hit_record[1].world_normal) < 0
                  /\ (shade.can_refract # None /\ shade.can_refract[1].ret)
                       => pp.ray.direction = Vec3Scale(hit_record[1].world_normal, 0 - 1)
                  /\ shade.roughness # 0
                       => shade.pre = Vec3Zero \/ Normalize(shade.pre) \in AxisDirs
                  /\ pp' = b
          ELSE /\ random = <<1, 0, 0>>
               /\ ~schlick
               /\ pp' = PerPixelMiss(a)
    /\ UNCHANGED <<now, sceneVars, cpuVars, vkVars, stopwatch, last, editor>>

\* per_pixel after the loop: light.extend(1.0).
per_pixel_return ==
    /\ \/ pp.pc = "break"
       \/ pp.pc = "loop" /\ ~(pp.bounce < config.max_bounces)
    /\ pp' = [pp EXCEPT !.pc = "done", !.result = Some(<<pp.light[1], pp.light[2], pp.light[3], Unit>>)]
    /\ UNCHANGED <<now, sceneVars, cpuVars, vkVars, stopwatch, last, editor>>

TraceNext ==
    \/ \E w \in Worlds, objs \in ObjectLists : set_scene(w, objs)
    \/ \E bounces \in 0 .. MaxBounces : set_max_bounces(bounces)
    \/ \E position \in CamPoints : set_position(position)
    \/ \E direction \in AxisDirs \cup {<<1, 1, 0>>, <<1, 0 - 1, 0>>, <<1, 0, 1>>, <<0 - 1, 1, 0>>} :
          per_pixel_enter(direction)
    \/ \E random \in AxisDirs, schlick \in BOOLEAN : per_pixel_iterate(random, schlick)
    \/ per_pixel_return

\* The path tracer is looked at with one resolution and one sample cap:
\* per_pixel reads neither.
TraceInit ==
    /\ Init
    /\ camera.resolution_x = 1 /\ camera.resolution_y = 1
    /\ config.max_sample_count = 1

TraceSpec == TraceInit /\ [][TraceNext]_vars

\* ---------------------------------------------------------------- EditorApp

\* update, the inspector panel.  `event` is what the user does there during
\* this update: <<"none">>, the Re-Render button <<"rerender">>, the
\* Constantly Re-Render checkbox <<"constantly">>, or an edit of the world
\* <<"world", w>> or of the objects <<"objects", objs>>; each but the first
\* sets needs_rerender.
ed_inspector(event) ==
    /\ editor.pc = "inspector" /\ pc = "idle"
    /\ world' = IF event[1] = "world" THEN event[2] ELSE world
    /\ objects' = IF event[1] = "objects" THEN event[2] ELSE objects
    /\ editor' = [editor EXCEPT
                    !.pc = "viewport",
                    !.repaint = FALSE,
                    !.should_constantly_rerender =
                       IF event[1] = "constantly" THEN ~@ ELSE @,
                    !.needs_rerender = @ \/ event[1] # "none",
                    !.dirty = @ \/ world' # world \/ objects' # objects,
                    !.mutated = world' # world \/ objects' # objects]
    /\ UNCHANGED <<now, camera, cpuVars, vkVars, stopwatch, last, pp>>

\* The camera after a viewport event: a drag with ctrl <<"zoom", d>>, with
\* shift <<"pan", d>> or plain <<"orbit", turn>>, a scroll <<"scroll", d>>,
\* or <<"none", 0>>.
Interact(cam, event) ==
    CASE event[1] = "none" -> cam
      [] event[1] \in {"zoom", "scroll"} -> Zoom(cam, event[2])
      [] event[1] = "pan" -> Pan(cam, <<event[2], 0, 0>>)
      [] event[1] = "orbit" -> Orbit(cam, event[2])

\* update, the central panel (Viewport::show): the resolution follows the
\* available size (w, h); once a texture exists, a drag or a scroll moves the
\* camera; each of them sets needs_rerender.
ed_viewport(w, h, event) ==
    /\ editor.pc = "viewport" /\ pc = "idle"
    /\ LET resized == w # camera.resolution_x \/ h # camera.resolution_y
           cam == IF resized
                  THEN update_matrices([update_matrices(
                          [camera EXCEPT !.resolution_x = w])
                             EXCEPT !.resolution_y = h])
                  ELSE camera
       IN  /\ ~editor.rendered_scene_handle => event[1] = "none"
           /\ InRange(Interact(cam, event).position)
           /\ InRange(Interact(cam, event).target)
           /\ camera' = Interact(cam, event)
           /\ editor' = [editor EXCEPT
                           !.pc = "rerender",
                           !.needs_rerender = @ \/ resized \/ event[1] # "none",
                           !.dirty = @ \/ camera' # camera,
                           !.mutated = @ \/ camera' # camera]
    /\ UNCHANGED <<now, world, objects, cpuVars, vkVars, stopwatch, last, pp>>

RerenderWantedOnlyConstant(ed) == ed.should_constantly_rerender

\* The condition of rerender's if.
RerenderWanted(ed) == ed.needs_rerender \/ ed.should_constantly_rerender

\* rerender, its if: new_frame and the flag's reset.
ed_rerender_new_frame(at) ==
    /\ editor.pc = "rerender"
    /\ IF RerenderWanted(editor)
       THEN /\ NewFrameCall(at)
            /\ editor' = [editor EXCEPT !.pc = "sample",
                                         !.needs_rerender = FALSE,
                                         !.dirty = FALSE]
       ELSE /\ at = now
            /\ editor' = [editor EXCEPT !.pc = "sample"]
            /\ UNCHANGED <<now, sceneVars, cpuVars, vkVars, stopwatch, last, pp>>

ImageReturnedAlways(image) == TRUE

\* The condition of rerender's `if let Some(image) = image`, whose body loads
\* the texture and calls ctx.request_repaint().
ImageReturned(image) == image # None

\* rerender, after its if: render_sample, and the texture of the image it
\* returned, with the request for a repaint.  update ends.
ed_rerender_sample(seed, at) ==
    /\ editor.pc = "sample"
    /\ RenderSampleCall(seed, at)
    /\ editor' = [editor EXCEPT
                    !.pc = "inspector",
                    !.rendered_scene_handle = @ \/ ImageReturned(last'.ret),
                    !.repaint = ImageReturned(last'.ret)]

EditorNext ==
    \/ \E event \in {<<"none">>, <<"rerender">>, <<"constantly">>,
                     <<"world", SkyWorld>>, <<"world", SolidWorld(<<Unit, 0, 0>>)>>,
                     <<"objects", <<>>>>,
                     <<"objects", <<SphereObject(Vec3Zero, 1,
                                                 Material(White, Black, 0, 0, Unit, <<3, 2>>))>>>>} :
          ed_inspector(event)
    \/ \E w \in Widths, h \in Heights,
          event \in {<<"none", 0>>, <<"zoom", 1>>, <<"zoom", 0 - 1>>, <<"pan", 1>>,
                     <<"orbit", 0 - 1>>, <<"scroll", 0 - 1>>} :
          ed_viewport(w, h, event)
    \/ \E at \in {now} : ed_rerender_new_frame(at)
    \/ \E seed \in Seeds, at \in {now} : ed_rerender_sample(seed, at)

\* The editor is looked at with the sample cap at 1 and with the clock
\* standing still (EditorNext): the editor reads neither the cap nor the
\* timers.
EditorInit == Init /\ config.max_sample_count = 1

EditorSpec == EditorInit /\ [][EditorNext]_vars

\* The editor's progress is looked at with a cap above 1, as the renderer's
\* cap is.  Within an update the code runs on; between two updates egui waits
\* for input unless a repaint is pending.  The fairness is that much: the
\* editor does not stand still while a step is due, and an update that waits
\* for input may never come.
EditorLiveInit == Init /\ config.max_sample_count = MaxSamples

\* The step that is due: the next part of the running update, or the start
\* of an update for a pending repaint.  Every step of EditorNext leaves the
\* part it starts from, so the step that is due stays enabled only while
\* the editor stands still; it is written with the input events absent.
UpdateDue ==
    \/ editor.repaint /\ ed_inspector(<<"none">>)
    \/ ed_viewport(camera.resolution_x, camera.resolution_y, <<"none", 0>>)
    \/ ed_rerender_new_frame(now)
    \/ \E seed \in Seeds : ed_rerender_sample(seed, now)

EditorLiveSpec == EditorLiveInit /\ [][EditorNext]_vars /\ WF_vars(UpdateDue)

\* ---------------------------------------------------------------- FrameTimer

\* super::timing::FrameTimer, the timer of the Vulkan renderer, is not part
\* of timing.rs as it stands: it is taken to be a frame Timer and a sample
\* Timer, each started and ended by the call named after it.

\* FrameTimer::start_frame
FrameTimerStartFrame(t, at) == [t EXCEPT !.frame = TimerStart(@, at)]

\* FrameTimer::start_sample
FrameTimerStartSample(t, at) == [t EXCEPT !.sample = TimerStart(@, at)]

\* FrameTimer::end_sample
FrameTimerEndSample(t, at) == [t EXCEPT !.sample = TimerEnd(@, at)]

\* FrameTimer::end_frame
FrameTimerEndFrame(t, at) == [t EXCEPT !.frame = TimerEnd(@, at)]

\* The fields of a FrameTimer the program can observe.
FrameTimerState(t) == <<TimerState(t.frame), TimerState(t.sample)>>

\* ---------------------------------------------------------------- VulkanRenderer

MAX_SAMPLE_COUNT == 1024

\* The `vertices` of the unit cube mesh VulkanRenderer::new uploads, in the
\* order of the source; positions are doubled (0.5 is 1).
CubeVertices ==
    <<[position |-> <<0 - 1, 1, 0 - 1>>, normal |-> <<0, 0, 0 - 1>>],
       [position |-> <<0 - 1, 1, 0 - 1>>, normal |-> <<0 - 1, 0, 0>>],
       [position |-> <<0 - 1, 1, 0 - 1>>, normal |-> <<0, 1, 0>>],
       [position |-> <<0 - 1, 0 - 1, 0 - 1>>, normal |-> <<0, 0, 0 - 1>>],
       [position |-> <<0 - 1, 0 - 1, 0 - 1>>, normal |-> <<0 - 1, 0, 0>>],
       [position |-> <<0 - 1, 0 - 1, 0 - 1>>, normal |-> <<0, 0 - 1, 0>>],
       [position |-> <<1, 1, 0 - 1>>, normal |-> <<0, 0, 0 - 1>>],
       [position |-> <<1, 1, 0 - 1>>, normal |-> <<1, 0, 0>>],
       [position |-> <<1, 1, 0 - 1>>, normal |-> <<0, 1, 0>>],
       [position |-> <<1, 0 - 1, 0 - 1>>, normal |-> <<0, 0, 0 - 1>>],
       [position |-> <<1, 0 - 1, 0 - 1>>, normal |-> <<1, 0, 0>>],
       [position |-> <<1, 0 - 1, 0 - 1>>, normal |-> <<0, 0 - 1, 0>>],
       [position |-> <<0 - 1, 1, 1>>, normal |-> <<0, 0, 1>>],
       [position |-> <<0 - 1, 1, 1>>, normal |-> <<0, 0 - 1, 0>>],
       [position |-> <<0 - 1, 1, 1>>, normal |-> <<0, 1, 0>>],
       [position |-> <<0 - 1, 0 - 1, 1>>, normal |-> <<0, 0, 1>>],
       [position |-> <<0 - 1, 0 - 1, 1>>, normal |-> <<0 - 1, 0, 0>>],
       [position |-> <<0 - 1, 0 - 1, 1>>, normal |-> <<0, 0 - 1, 0>>],
       [position |-> <<1, 1, 1>>, normal |-> <<0, 0, 1>>],
       [position |-> <<1, 1, 1>>, normal |-> <<1, 0, 0>>],
       [position |-> <<1, 1, 1>>, normal |-> <<0, 1, 0>>],
       [position |-> <<1, 0 - 1, 1>>, normal |-> <<0, 0, 1>>],
       [position |-> <<1, 0 - 1, 1>>, normal |-> <<1, 0, 0>>],
       [position |-> <<1, 0 - 1, 1>>, normal |-> <<0, 0 - 1, 0>>]>>

\* The `indices` of the unit cube mesh, three per triangle, counted from 0.
CubeIndices ==
    <<0, 3, 6, 6, 9, 3,
      10, 7, 19, 19, 22, 10,
      21, 18, 15, 15, 12, 18,
      16, 13, 4, 4, 1, 13,
      5, 11, 17, 17, 23, 11,
      2, 8, 14, 14, 20, 8>>

\* u32 values are pairs <<hi, lo>> of the value hi * 65536 + lo.  WideMul is
\* the exact product of such a value and k; it is a u32 when hi < 65536.
WideMul(x, k) ==
    LET low == x[2] * k
    IN  <<x[1] * k + low \div 65536, low % 65536>>

\* (resolution_x * resolution_y * 4) as u64: two u32 multiplications.  Where
\* a product leaves u32, a build with overflow checks panics and a build
\* without them keeps the low 32 bits; `overflow` tells that one did.
OutputBufferSize(w, h) ==
    LET first == WideMul(<<w \div 65536, w % 65536>>, h)
        second == WideMul(<<first[1] % 65536, first[2]>>, 4)
    IN  [len |-> <<second[1] % 65536, second[2]>>,
         overflow |-> first[1] >= 65536 \/ second[1] >= 65536]

InstancesAllTriangles(objs) ==
    [i \in 1 .. Len(objs) |->
       [acceleration_structure_reference |-> "cube_blas",
        transform |-> <<objs[i].geometry.center,
                        IF objs[i].geometry.kind = "Sphere"
                        THEN objs[i].geometry.radius ELSE objs[i].geometry.side_length>>,
        instance_custom_index |-> i - 1, mask |-> 255,
        instance_shader_binding_table_record_offset |-> 0]]

\* new_frame's `instances`: one AccelerationStructureInstance per object, in
\* scene order; the custom index is the object's index (from 0), the
\* transform is kept as <<translation, scale>>.
Instances(objs) ==
    [i \in 1 .. Len(objs) |->
       IF objs[i].geometry.kind = "Sphere"
       THEN [acceleration_structure_reference |-> "sphere_blas",
             transform |-> <<objs[i].geometry.center, objs[i].geometry.radius>>,
             instance_custom_index |-> i - 1, mask |-> 255,
             instance_shader_binding_table_record_offset |-> 1]
       ELSE [acceleration_structure_reference |-> "cube_blas",
             transform |-> <<objs[i].geometry.center, objs[i].geometry.side_length>>,
             instance_custom_index |-> i - 1, mask |-> 255,
             instance_shader_binding_table_record_offset |-> 0]]

\* The BoundScene new_frame builds: the top-level acceleration structure's
\* instances, the materials and spheres storage buffers, the storage image's
\* extent and the readback buffer.
BoundScene(cam, objs) ==
    [tlas |-> Instances(objs),
     materials |-> [i \in 1 .. Len(objs) |-> objs[i].material],
     spheres |-> [i \in 1 .. Len(objs) |->
                    IF objs[i].geometry.kind = "Sphere"
                    THEN [center |-> objs[i].geometry.center,
                          radius |-> objs[i].geometry.radius]
                    ELSE [center |-> Vec3Zero, radius |-> 0]],
     extent |-> <<cam.resolution_x, cam.resolution_y>>,
     output_buffer |-> OutputBufferSize(cam.resolution_x, cam.resolution_y)]

\* image::RgbaImage::from_raw: None when the buffer is too small for w x h;
\* the size needed is computed without wrap-around.
FromRaw(w, h, len) ==
    LET need == WideMul(WideMul(<<w \div 65536, w % 65536>>, h), 4)
    IN  IF need[1] < len[1] \/ (need[1] = len[1] /\ need[2] <= len[2])
        THEN Some([width |-> w, height |-> h]) ELSE None

VkCapReachedStrict(count) == count > MAX_SAMPLE_COUNT

\* The guard of render_sample: sample_count >= MAX_SAMPLE_COUNT.
VkCapReached(count) == count >= MAX_SAMPLE_COUNT

\* What the device and the driver do with a call: "ok"; "record_err", one of
\* the recording calls returns Err (turned into None by `.ok()?`); "panic",
\* one of the unwrap()s meets an Err.
Outcomes == {"ok", "record_err", "panic"}

\* VulkanRenderer::new_frame
vk_new_frame(outcome, at) ==
    /\ ~vk_panicked
    /\ outcome \in {"ok", "panic"}
    /\ IF outcome = "panic"
       THEN /\ vk_panicked' = TRUE
            /\ last' = Call("vk_new_frame", None, "panic")
            /\ UNCHANGED <<now, vk_timer, vk_bound_scene, vk_sample_count, vk_calls>>
       ELSE /\ now' = at
            /\ vk_bound_scene' = Some(BoundScene(camera, objects))
            /\ vk_timer' = FrameTimerStartFrame(
                              [frame |-> Untouched(vk_timer.frame),
                               sample |-> Untouched(vk_timer.sample)], at)
            /\ vk_sample_count' = 0
            /\ vk_calls' = 0
            /\ last' = Call("vk_new_frame", None, "ok")
            /\ UNCHANGED vk_panicked
    /\ UNCHANGED <<sceneVars, cpuVars, stopwatch, extraVars>>

\* What render_sample does to the renderer; `ret` is what it returns.
VkRenderSampleEffect(outcome, at, ret) ==
    LET t0 == FrameTimerStartSample(
                 [frame |-> Untouched(vk_timer.frame),
                  sample |-> Untouched(vk_timer.sample)], at)
    IN  IF VkCapReached(vk_sample_count)
        THEN /\ vk_timer' = t0
             /\ ret = None
             /\ UNCHANGED <<vk_bound_scene, vk_sample_count, vk_panicked>>
        ELSE IF outcome = "panic"
        THEN /\ vk_timer' = t0
             /\ ret = None
             /\ vk_panicked' = TRUE
             /\ UNCHANGED <<vk_bound_scene, vk_sample_count>>
        ELSE IF vk_bound_scene = None \/ outcome = "record_err"
        THEN /\ vk_timer' = t0
             /\ ret = None
             /\ UNCHANGED <<vk_bound_scene, vk_sample_count, vk_panicked>>
        ELSE /\ vk_sample_count' = MAX_SAMPLE_COUNT
             /\ vk_timer' = FrameTimerEndFrame(FrameTimerEndSample(t0, at), at)
             /\ ret = FromRaw(camera.resolution_x, camera.resolution_y,
                              vk_bound_scene[1].output_buffer.len)
             /\ UNCHANGED <<vk_bound_scene, vk_panicked>>

\* VulkanRenderer::render_sample
vk_render_sample(outcome, at) ==
    /\ ~vk_panicked
    /\ now' = at
    /\ \E ret \in {None, Some([width |-> camera.resolution_x,
                               height |-> camera.resolution_y])} :
          /\ VkRenderSampleEffect(outcome, at, ret)
          /\ last' = Call("vk_render_sample", ret,
                          IF vk_panicked' THEN "panic" ELSE outcome)
    /\ vk_calls' = IF vk_calls < 2 THEN vk_calls + 1 ELSE vk_calls
    /\ UNCHANGED <<sceneVars, cpuVars, stopwatch, extraVars>>

\* VulkanRenderer::render_frame: new_frame, then render_sample(scene).unwrap().
\* The unwrap panics when render_sample returns None; nothing of the renderer
\* is observed after a panic, so its state is left as it was.
vk_render_frame(outcome, at) ==
    /\ ~vk_panicked
    /\ IF /\ outcome = "ok"
          /\ FromRaw(camera.resolution_x, camera.resolution_y,
                     BoundScene(camera, objects).output_buffer.len) # None
       THEN /\ now' = at
            /\ vk_bound_scene' = Some(BoundScene(camera, objects))
            /\ vk_sample_count' = MAX_SAMPLE_COUNT
            /\ vk_timer' =
                  FrameTimerEndFrame(FrameTimerEndSample(FrameTimerStartSample(
                     FrameTimerStartFrame(
                        [frame |-> Untouched(vk_timer.frame),
                         sample |-> Untouched(vk_timer.sample)], at), at), at), at)
            /\ vk_calls' = 1
            /\ last' = Call("vk_render_frame",
                            FromRaw(camera.resolution_x, camera.resolution_y,
                                    BoundScene(camera, objects).output_buffer.len), "ok")
            /\ UNCHANGED vk_panicked
       ELSE /\ vk_panicked' = TRUE
            /\ last' = Call("vk_render_frame", None, "panic")
            /\ UNCHANGED <<now, vk_timer, vk_bound_scene, vk_sample_count, vk_calls>>
    /\ UNCHANGED <<sceneVars, cpuVars, stopwatch, extraVars>>

\* The resolutions of the GPU renderer include 32768, whose square times 4
\* is 2^32; its scenes are the two lists of a cube and a sphere that share
\* their centre, and the empty one it starts with.
GpuNext ==
    \/ \E v \in Widths \cup {32768} : set_resolution_x(v)
    \/ \E v \in Heights \cup {32768} : set_resolution_y(v)
    \/ \E objs \in {l \in ObjectLists :
                       Len(l) = 2 /\ l[1].geometry.center = l[2].geometry.center} :
          set_scene(world, objs)
    \/ \E outcome \in {"ok", "panic"}, at \in Instants : vk_new_frame(outcome, at)
    \/ \E outcome \in Outcomes, at \in Instants : vk_render_sample(outcome, at)
    \/ \E outcome \in Outcomes, at \in Instants : vk_render_frame(outcome, at)

\* The GPU renderer has no sample cap to configure: one value of the CPU
\* renderer's.
GpuInit == Init /\ config.max_sample_count = 1

GpuSpec == GpuInit /\ [][GpuNext]_vars

\* ---------------------------------------------------------------- a Timer alone

\* The values the clock can return to the free-standing timer.
Laps == now .. MaxLap

\* Timer::start
sw_start(at) ==
    /\ now' = at
    /\ stopwatch' = TimerStart(Untouched(stopwatch), at)
    /\ last' = Call("start", None, "kept")
    /\ UNCHANGED <<sceneVars, cpuVars, vkVars, extraVars>>

\* Timer::start_if_not_started
sw_start_if_not_started(at) ==
    /\ now' = at
    /\ stopwatch' = TimerStartIfNotStarted(Untouched(stopwatch), at)
    /\ last' = Call("start_if_not_started", None, "kept")
    /\ UNCHANGED <<sceneVars, cpuVars, vkVars, extraVars>>

\* Timer::end
sw_end(at) ==
    /\ now' = at
    /\ stopwatch' = TimerEnd(Untouched(stopwatch), at)
    /\ last' = Call("end", None, "kept")
    /\ UNCHANGED <<sceneVars, cpuVars, vkVars, extraVars>>

\* Timer::end_if_not_ended
sw_end_if_not_ended(at) ==
    /\ now' = at
    /\ stopwatch' = TimerEndIfNotEnded(Untouched(stopwatch), at)
    /\ last' = Call("end_if_not_ended", None, "kept")
    /\ UNCHANGED <<sceneVars, cpuVars, vkVars, extraVars>>

\* Timer::end_multiple
sw_end_multiple(at, count) ==
    /\ now' = at
    /\ stopwatch' = TimerEndMultiple(Untouched(stopwatch), at, count)
    /\ last' = Call("end_multiple", None, "kept")
    /\ UNCHANGED <<sceneVars, cpuVars, vkVars, extraVars>>

\* Timer::duration
sw_duration ==
    /\ stopwatch' = Untouched(stopwatch)
    /\ last' = Call("duration", TimerDuration(stopwatch), "kept")
    /\ UNCHANGED <<now, sceneVars, cpuVars, vkVars, extraVars>>

TimerNext ==
    \/ \E at \in Laps : sw_start(at)
    \/ \E at \in Laps : sw_start_if_not_started(at)
    \/ \E at \in Laps : sw_end(at)
    \/ \E at \in Laps : sw_end_if_not_ended(at)
    \/ \E at \in Laps, count \in 1 .. MaxCount : sw_end_multiple(at, count)
    \/ sw_duration

TimerSpec == Init /\ [][TimerNext]_vars

\* ---------------------------------------------------------------- steps

\* A call of CpuRenderer::render_sample (the first conjuncts follow from the
\* last and only tell the other steps apart early).
RenderSampleStep ==
    /\ last'.op = "render_sample"
    /\ camera' = camera /\ config' = config
    /\ \E seed \in Seeds : render_sample(seed, now')

\* A call of CpuRenderer::new_frame.
NewFrameStep ==
    /\ last'.op = "new_frame" /\ pc' = "idle"
    /\ camera' = camera /\ config' = config
    /\ new_frame(now')

\* A call of VulkanRenderer::render_sample that returns.
VkRenderSampleStep ==
    /\ \E outcome \in Outcomes, at \in Instants : vk_render_sample(outcome, at)
    /\ ~vk_panicked'

\* A call of VulkanRenderer::new_frame that returns.
VkNewFrameStep ==
    /\ \E at \in Instants : vk_new_frame("ok", at)

\* ---------------------------------------------------------------- CPU claims

\* C1: after new_frame, once exactly max_sample_count calls of render_sample
\* have returned Some, a further render_sample returns None and the count of
\* Some results stays: it keeps returning None until new_frame resets the
\* count (and that whether or not max_sample_count was held constant: the
\* count is compared with the max_sample_count of the call).
C1_ConvergenceCap ==
    [][RenderSampleStep /\ frame_began # None
          /\ somes = config.max_sample_count
       => last'.ret = None /\ somes' = somes]_vars

\* C1 witness: a render_sample has just returned None after max_sample_count
\* (at least one) calls returned Some in this frame.
C1_Witness ==
    /\ frame_began # None
    /\ somes = config.max_sample_count /\ somes >= 1
    /\ last.op = "render_sample" /\ last.ret = None

\* C2: render_sample returns Some exactly when sample_count < max_sample_count
\* at the call; a Some increases sample_count by exactly 1, a None leaves it.
C2_SomeIffBelowMax ==
    [][RenderSampleStep
       => /\ (last'.ret # None) <=> (sample_count < config.max_sample_count)
          /\ last'.ret # None => sample_count' = sample_count + 1
          /\ last'.ret = None => sample_count' = sample_count]_vars

\* C2 witness: a render_sample has just returned Some and sample_count is 2.
C2_Witness ==
    last.op = "render_sample" /\ last.ret # None /\ sample_count = 2

\* The image print_frame_buffer is to produce from the contributions drawn.
ExpectedImage(fb, drawn, n) ==
    [width |-> fb.width, height |-> fb.height,
     pixels |-> [c \in DOMAIN fb.pixels |->
                   LET sum == ContribSum(drawn, c, Seeds)
                   IN  <<Tonemap(sum[1], n), Tonemap(sum[2], n),
                         Tonemap(sum[3], n), Tonemap(sum[4], n)>>]]

\* C3: during a frame each pixel of the accumulation buffer is the
\* component-wise sum of the contributions of the samples drawn since
\* new_frame, and the image render_sample returned is that sum divided by
\* sample_count, clamped to [0,1] and scaled to 0..255.
C3_AccumulationInvariant ==
    frame_began # None /\ frame_buffer # None
    => /\ \A c \in DOMAIN frame_buffer[1].pixels :
             frame_buffer[1].pixels[c] = ContribSum(contrib, c, Seeds)
       /\ last.op = "render_sample" /\ last.ret # None
          => last.ret[1] = ExpectedImage(frame_buffer[1], contrib, sample_count)

\* C4 (amended): new_frame, from any state, leaves a zero-filled buffer of
\* the camera's resolution and sample_count = 0; the first render_sample
\* after a resolution-changing new_frame returns Some with sample_count = 1
\* when max_sample_count >= 1, and None with sample_count = 0 when it is 0.
C4_NewFrameResets ==
    /\ [][NewFrameStep
          => /\ frame_buffer' = Some(ImageNew(camera.resolution_x, camera.resolution_y))
             /\ sample_count' = 0]_vars
    /\ [][RenderSampleStep /\ last.op = "new_frame" /\ last.alloc = "resized"
          => IF config.max_sample_count >= 1
             THEN last'.ret # None /\ sample_count' = 1
             ELSE last'.ret = None /\ sample_count' = 0]_vars

\* C4 witness: new_frame has just replaced a buffer of another size, one that
\* held samples, by a zero-filled buffer of the camera's resolution.
C4_Witness ==
    /\ last.op = "new_frame" /\ last.alloc = "resized"
    /\ pc = "idle"
    /\ frame_buffer = Some(ImageNew(camera.resolution_x, camera.resolution_y))
    /\ sample_count = 0
    /\ profiler.sample_timer.duration # None

\* C4 as stated: new_frame leaves a zero-filled buffer of the camera's
\* resolution and sample_count = 0, and the first render_sample after a
\* resolution-changing new_frame yields sample_count = 1.
C4_FirstSampleCountIsOne ==
    /\ [][NewFrameStep
          => /\ frame_buffer' = Some(ImageNew(camera.resolution_x, camera.resolution_y))
             /\ sample_count' = 0]_vars
    /\ [][RenderSampleStep /\ last.op = "new_frame" /\ last.alloc = "resized"
          => sample_count' = 1]_vars

\* C7: in every frame (the renderer used in order, new_frame first) the first
\* render_sample ends the prepare timer, whose duration is then the time
\* since that frame's new_frame, and starts the render timer at that moment.
C7_FirstSampleTimers ==
    [][RenderSampleStep /\ ordered /\ frame_began # None
          /\ somes = 0 /\ sample_count = 0
          /\ last'.ret # None
       => /\ profiler'.prepare_timer.duration = Some(now' - frame_began[1])
          /\ profiler'.render_timer.start = Some(now')]_vars

\* C8: every render_frame, for any max_sample_count including 0, returns
\* with sample_count = max_sample_count and with the render timer and the
\* frame timer ended during that call.
C8_RenderFrameEndsTimers ==
    [][render_frame_return
       => /\ sample_count' = config'.max_sample_count
          /\ profiler'.render_timer.touched
          /\ profiler'.frame_timer.touched]_vars

\* C18: new_frame and render_sample replace the accumulation buffer by a new
\* (zero-filled) one exactly when there is none or its size is not the
\* scene's resolution; with the size unchanged render_sample adds its sample
\* to the contents the buffer had.  The first antecedent describes the steps
\* that are a call of new_frame, the second the calls of render_sample that
\* return an image.
C18_BufferReuse ==
    /\ [][last'.op = "new_frame" /\ pc' = "idle" /\ sample_count' = 0
          /\ frame_began' # None /\ camera' = camera /\ config' = config
            => LET same_size == /\ frame_buffer # None
                                /\ frame_buffer[1].width = camera.resolution_x
                                /\ frame_buffer[1].height = camera.resolution_y
               IN  /\ (last'.alloc = "kept") <=> same_size
                   /\ frame_buffer'
                        = Some(ImageNew(camera.resolution_x, camera.resolution_y))]_vars
    /\ [][last'.op = "render_sample" /\ last'.ret # None
          /\ pc = "idle" /\ pc' = "idle" /\ sample_count' = sample_count + 1
            => LET same_size == /\ frame_buffer # None
                                /\ frame_buffer[1].width = camera.resolution_x
                                /\ frame_buffer[1].height = camera.resolution_y
                   fresh == ImageNew(camera.resolution_x, camera.resolution_y)
               IN  /\ (last'.alloc = "kept") <=> same_size
                   /\ \E seed \in Seeds :
                         frame_buffer'
                           = Some(Accumulate(IF same_size THEN frame_buffer[1]
                                             ELSE fresh, seed))]_vars

\* C18 witness: the second sample of a frame has been added to the buffer
\* that held the first: the alpha of a pixel is 2.0.
C18_Witness ==
    /\ last.op = "render_sample" /\ last.ret # None /\ last.alloc = "kept"
    /\ sample_count = 2
    /\ frame_buffer # None /\ frame_buffer[1].pixels[<<0, 0>>][4] = 2 * Unit

\* ---------------------------------------------------------------- GPU claims

\* C5: a render_sample made after max_sample_count has been reached is a
\* no-op: it returns None and leaves sample_count, the bound scene and all
\* the timers as they were.
C5_CappedSampleIsNoOp ==
    [][VkRenderSampleStep /\ vk_sample_count >= MAX_SAMPLE_COUNT
       => /\ last'.ret = None
          /\ vk_sample_count' = vk_sample_count
          /\ vk_bound_scene' = vk_bound_scene
          /\ FrameTimerState(vk_timer') = FrameTimerState(vk_timer)]_vars

C14_FailureRestartable ==
    [][/\ last'.op = "vk_render_sample"
       /\ \E outcome \in {"record_err", "panic"}, at \in Instants :
             vk_render_sample(outcome, at)
       /\ ~VkCapReached(vk_sample_count)
       /\ vk_bound_scene # None
       => /\ ~vk_panicked'
          /\ last'.ret = None
          /\ vk_sample_count' = vk_sample_count
          /\ vk_bound_scene' = vk_bound_scene]_vars

\* ---------------------------------------------------------------- Timer claims

\* C9: start() records a new start instant and leaves the duration as it
\* was; end() sets the duration only if the timer has been started; a timer
\* never started reports duration() = None whatever was called on it.
C9_StartEnd ==
    /\ [][(\E at \in Laps : sw_start(at))
          => /\ stopwatch'.start = Some(now')
             /\ stopwatch'.duration = stopwatch.duration]_vars
    /\ [][(\E at \in Laps : sw_end(at))
          => /\ stopwatch'.start = stopwatch.start
             /\ stopwatch'.duration =
                   IF stopwatch.start = None THEN stopwatch.duration
                   ELSE Some(now' - stopwatch.start[1])]_vars
    /\ [](stopwatch.start = None => TimerDuration(stopwatch) = None)

\* C9 witness: end() has just been called on a timer never started, at a
\* later time than construction, and the duration is None.
C9_Witness ==
    /\ last.op = "end" /\ now >= 1
    /\ stopwatch.start = None /\ stopwatch.duration = None

\* C10: start_if_not_started() changes nothing once the timer has a start,
\* end_if_not_ended() changes nothing once it has a duration, and no call
\* (start() included) takes the start or the duration away again.
C10_IfNotNoOps ==
    /\ [][(\E at \in Laps : sw_start_if_not_started(at)) /\ stopwatch.start # None
          => TimerState(stopwatch') = TimerState(stopwatch)]_vars
    /\ [][(\E at \in Laps : sw_end_if_not_ended(at)) /\ stopwatch.duration # None
          => TimerState(stopwatch') = TimerState(stopwatch)]_vars
    /\ [][stopwatch.start # None => stopwatch'.start # None]_vars
    /\ [][stopwatch.duration # None => stopwatch'.duration # None]_vars

\* C10 witness: end_if_not_ended() has just left alone the duration of a
\* timer that was ended and then started again later.
C10_Witness ==
    /\ last.op = "end_if_not_ended" /\ ~stopwatch.touched
    /\ stopwatch.duration # None /\ stopwatch.start # None
    /\ stopwatch.start[1] > stopwatch.duration[1]
    /\ now > stopwatch.start[1]

\* ---------------------------------------------------------------- editor claims

\* C17: a change of the scene (an inspector edit, a viewport camera
\* interaction, a change of resolution) sets needs_rerender; rerender, with
\* needs_rerender set, calls new_frame and clears the flag before it calls
\* render_sample; no render_sample runs on a scene changed since the latest
\* new_frame.
C17_EditorLoop ==
    /\ [](editor.dirty => editor.needs_rerender)
    /\ [][editor.pc = "rerender" /\ editor.needs_rerender
            => /\ last'.op = "new_frame" /\ sample_count' = 0
               /\ editor'.pc = "sample" /\ ~editor'.needs_rerender]_vars
    /\ [][editor.pc = "sample" /\ editor'.pc = "inspector"
            => /\ ~editor.dirty /\ ~editor.needs_rerender
               /\ last'.op = "render_sample"]_vars

\* C17 witness: an update in which the viewport moved the camera has called
\* new_frame and is about to call render_sample.
C17_Witness ==
    /\ editor.pc = "sample" /\ editor.mutated /\ ~editor.dirty
    /\ ~editor.needs_rerender /\ editor.rendered_scene_handle
    /\ camera.position # <<0 - 3, 0, 0>>
    /\ last.op = "new_frame"

\* C28, as stated: if from some update on the scene is no longer mutated and
\* Constantly Re-Render is off, the updates bring sample_count to
\* max_sample_count, after which render_sample returns None and no texture is
\* loaded and no repaint requested; with Constantly Re-Render on, every update
\* calls new_frame first, sample_count is 1 after each update and the frame
\* does not converge.
C28_ConvergesUnmutated ==
    /\ <>[](~editor.mutated /\ ~editor.should_constantly_rerender)
         => <>[](/\ sample_count = config.max_sample_count
                 /\ last.op = "render_sample" /\ last.ret = None
                 /\ ~editor.repaint)
    /\ [][editor.pc = "rerender" /\ editor.should_constantly_rerender
            => last'.op = "new_frame" /\ sample_count' = 0]_vars
    /\ [][(editor.pc = "sample" /\ editor'.pc = "inspector"
             /\ editor.should_constantly_rerender)
            => /\ sample_count' = 1 /\ sample_count' < config.max_sample_count
               /\ last'.ret # None /\ editor'.repaint]_vars

\* C28, amended: the same, if from some update on nothing sets needs_rerender
\* (no edit, no viewport interaction or resize, no press of Re-Render, no
\* toggle of the checkbox) and Constantly Re-Render is off.
C28_Converges ==
    /\ <>[](~editor.needs_rerender /\ ~editor.should_constantly_rerender)
         => <>[](/\ sample_count = config.max_sample_count
                 /\ last.op = "render_sample" /\ last.ret = None
                 /\ ~editor.repaint /\ editor.rendered_scene_handle)
    /\ [][editor.pc = "rerender" /\ editor.should_constantly_rerender
            => last'.op = "new_frame" /\ sample_count' = 0 /\ editor'.pc = "sample"]_vars
    /\ [][(editor.pc = "sample" /\ editor'.pc = "inspector"
             /\ editor.should_constantly_rerender)
            => /\ sample_count' = 1 /\ sample_count' < config.max_sample_count
               /\ last'.ret # None /\ editor'.repaint
               /\ editor'.rendered_scene_handle]_vars

\* C28 witness: the editor has converged and come to rest: the cap is above
\* 1, the latest update's render_sample returned None at the cap, no repaint
\* is pending, nothing asks for a new frame, and a texture is shown.
C28_Witness ==
    /\ editor.pc = "inspector" /\ ~editor.repaint
    /\ ~editor.needs_rerender /\ ~editor.should_constantly_rerender
    /\ config.max_sample_count > 1
    /\ sample_count = config.max_sample_count
    /\ last.op = "render_sample" /\ last.ret = None
    /\ editor.rendered_scene_handle

\* ---------------------------------------------------------------- camera claims

\* C12: zoom(d) never moves the position onto or across the target, for any
\* d: position - target keeps its direction and a positive length; a zoom
\* that is refused leaves position, target and the cached matrices as they
\* were.
C12_ZoomKeepsSide ==
    [][\A distance \in ZoomDistances :
         LET before == Vec3Sub(camera.position, camera.target)
             after == Vec3Sub(camera'.position, camera'.target)
         IN  zoom(distance) /\ ~IsNaNVec(before) /\ before # Vec3Zero
               => /\ ~IsNaNVec(after) /\ after # Vec3Zero
                  /\ Normalize(after) = Normalize(before)
                  /\ ~(distance < Magnitude(before)) => camera' = camera]_vars

\* C13: the cached view, projection and inverse matrices are the ones
\* computed from the camera's current position, target, up, resolution, clip
\* planes and projection, after Camera::new and after every mutator.
C13_CacheConsistent ==
    /\ camera.view_matrix = LookAtLh(camera.position, camera.target, camera.up)
    /\ camera.proj_matrix = ProjMatrix(camera)
    /\ camera.inverse_view_matrix
         = Invert(LookAtLh(camera.position, camera.target, camera.up))[1]
    /\ camera.inverse_proj_matrix = Invert(ProjMatrix(camera))[1]

\* C13 witness: every field that Camera::new was given has been changed by a
\* mutator since, and the caches follow.
C13_Witness ==
    /\ camera.target = <<0 - 1, 0, 0>> /\ camera.position = <<3, 0, 0>>
    /\ camera.up = <<0, 0, 1>>
    /\ camera.resolution_x = 2 /\ camera.resolution_y = 2
    /\ camera.near_clip = 2 /\ camera.far_clip = 20
    /\ camera.projection = <<"Orthographic", 1>>
    /\ camera.view_matrix = LookAtLh(<<3, 0, 0>>, <<0 - 1, 0, 0>>, <<0, 0, 1>>)
    /\ camera.inverse_proj_matrix
         = <<"invert", Ortho(0 - Unit, Unit, 0 - 1, 1, 2, 20)>>

\* ---------------------------------------------------------------- path tracer claims

\* C11: World::sample is total over the world variants: it returns c for
\* Solid(c) and black for Transparent and never fails, so that per_pixel gets
\* past a miss whatever the world is.
C11_WorldSampleTotal ==
    /\ pp.pc # "panicked"
    /\ pp.sampled # None
         => /\ world.kind = "SolidColor" => pp.sampled[1] = world.color
            /\ world.kind = "Transparent" => pp.sampled[1] = Black

\* C15: the hit trace_ray returns belongs to an object whose distance is
\* minimal among the objects the ray hits, the earliest in scene order among
\* those at the minimum, and trace_ray returns None exactly when the ray hits
\* no object.
C15_TraceRayNearest ==
    pp.traced # None
      => LET ray == pp.traced[1].ray
             ret == pp.traced[1].ret
             hits == {i \in 1 .. Len(objects) : hit(ray, objects[i]) # None}
         IN  /\ (ret = None) <=> (hits = {})
             /\ ret # None
                  => LET o == ret[1].object
                     IN  /\ o \in hits
                         /\ ret[1].hit_distance = hit(ray, objects[o])[1]
                         /\ \A j \in hits :
                               LET t == hit(ray, objects[j])[1]
                               IN  /\ ret[1].hit_distance <= t
                                   /\ ret[1].hit_distance = t => o <= j

\* C15 witness: trace_ray has returned the first of two objects that the ray
\* hits at the same distance.
C15_Witness ==
    /\ pp.traced # None /\ pp.traced[1].ret # None
    /\ \E j \in 1 .. Len(objects) :
          /\ j > pp.traced[1].ret[1].object
          /\ hit(pp.traced[1].ray, objects[j])
               = Some(pp.traced[1].ret[1].hit_distance)

C19_BounceLoop ==
    /\ pp.intersections <= config.max_bounces
    /\ pp.misses <= 1
    /\ pp.pc = "loop" => pp.misses = 0
    /\ pp.world_adds = pp.misses
    /\ pp.pc = "done" /\ config.max_bounces = 0 => pp.result = Some(<<0, 0, 0, Unit>>)

\* C20: the light per_pixel has gathered is the light in which the emission
\* of each hit is scaled by the attenuation of the hits before it, so that an
\* emitter behind a bounce off albedo 0 adds nothing.
C20_EmissionScaled ==
    pp.light = pp.scaled_light

\* C21: per_pixel calls refract(d, n, ior) only after can_refract returned
\* true for the same d, n and ior at the same hit; at a transmission hit where
\* the Schlick coefficient is not below the draw or can_refract returned
\* false, refract is not called and the specular direction is used.
C21_RefractGuarded ==
    pp.shade # None
      => LET shade == pp.shade[1]
         IN  /\ shade.refract # None
                  => /\ shade.can_refract # None
                     /\ shade.can_refract[1].ret
                     /\ shade.can_refract[1].d = shade.refract[1].d
                     /\ shade.can_refract[1].n = shade.refract[1].n
                     /\ shade.can_refract[1].ior = shade.refract[1].ior
             /\ (shade.transmission_ray
                   /\ (~shade.schlick
                         \/ (shade.can_refract # None /\ ~shade.can_refract[1].ret)))
                  => (shade.refract = None /\ shade.used = "specular")

\* C21 witness: at a hit on glass, can_refract returned true and refract was
\* called.
C21_Witness ==
    /\ pp.shade # None
    /\ pp.shade[1].refract # None
    /\ pp.shade[1].can_refract # None /\ pp.shade[1].can_refract[1].ret
    /\ pp.shade[1].used = "refract"

\* C22: the ray per_pixel builds for the next bounce has a finite, non-zero
\* direction, and where the vector the direction is normalised from has zero
\* length the direction is the surface normal.
C22_DirectionFinite ==
    pp.shade # None
      => /\ ~IsNaNVec(pp.ray.direction)
         /\ pp.ray.direction # Vec3Zero
         /\ pp.shade[1].pre = Vec3Zero => pp.ray.direction = pp.shade[1].normal

\* C23: for every ray traced and every cube of the scene, hit_cube returns
\* what the slab rules give: with the ray's points p(t) = origin + t *
\* direction and a slab met at t when p(t) lies between the cube's two faces
\* of that axis (strictly between them on an axis along which the ray does
\* not move), None when no t >= 0 meets all three slabs, the exit (the
\* largest such t) when the ray starts inside (some t < 0 meets them), and
\* the entry (the smallest such t) otherwise.  For the cube of side 2 at the
\* origin, the ray from (0,0,-5) along (0,0,1) returns 4 and the ray from
\* (0,0,-5) along (1,0,0) returns None.
C23_HitCubeSlabs ==
    /\ pp.traced # None
         => \A i \in 1 .. Len(objects) :
               objects[i].geometry.kind = "Cube"
                 => LET ray == pp.traced[1].ray
                        cube == objects[i].geometry
                        half == cube.side_length \div 2
                        at(t) == [j \in 1 .. 3 |-> ray.origin[j] + t * ray.direction[j]]
                        met(t) == \A j \in 1 .. 3 :
                                     IF ray.direction[j] = 0
                                     THEN /\ cube.center[j] - half < ray.origin[j]
                                          /\ ray.origin[j] < cube.center[j] + half
                                     ELSE /\ cube.center[j] - half <= at(t)[j]
                                          /\ at(t)[j] <= cube.center[j] + half
                        ahead == {t \in 0 .. 16 : met(t)}
                        behind == {t \in (0 - 16) .. (0 - 1) : met(t)}
                    IN  hit_cube(ray, cube)
                          = IF ahead = {} THEN None
                            ELSE IF behind # {}
                            THEN Some(CHOOSE t \in ahead : \A u \in ahead : u <= t)
                            ELSE Some(CHOOSE t \in ahead : \A u \in ahead : t <= u)
    /\ hit_cube([origin |-> <<0, 0, 0 - 5>>, direction |-> <<0, 0, 1>>],
                [kind |-> "Cube", center |-> Vec3Zero, side_length |-> 2]) = Some(4)
    /\ hit_cube([origin |-> <<0, 0, 0 - 5>>, direction |-> <<1, 0, 0>>],
                [kind |-> "Cube", center |-> Vec3Zero, side_length |-> 2]) = None

\* C23 witness: a ray with zero direction components that starts inside a
\* cube has been traced, and hit_cube returns its exit, one face away.
C23_Witness ==
    /\ pp.traced # None
    /\ pp.traced[1].ray.direction \in AxisDirs
    /\ \E i \in 1 .. Len(objects) :
          /\ objects[i].geometry.kind = "Cube"
          /\ pp.traced[1].ray.origin = objects[i].geometry.center
          /\ hit_cube(pp.traced[1].ray, objects[i].geometry)
               = Some(objects[i].geometry.side_length \div 2)

\* ---------------------------------------------------------------- GPU scene claims

\* C24: new_frame binds, for every scene object at index i, exactly one
\* instance with custom index i, which references the sphere BLAS with SBT
\* record offset 1 for a sphere and the cube BLAS with offset 0 for a cube,
\* and materials[i] and spheres[i] built from that object (spheres[i] zeroed
\* for a cube).
C24_IndexAlignment ==
    [][VkNewFrameStep
       => LET bound == vk_bound_scene'[1]
          IN  /\ Len(bound.tlas) = Len(objects)
              /\ Len(bound.materials) = Len(objects)
              /\ Len(bound.spheres) = Len(objects)
              /\ \A i \in 1 .. Len(objects) :
                    /\ Cardinality({j \in 1 .. Len(bound.tlas) :
                                      bound.tlas[j].instance_custom_index = i - 1}) = 1
                    /\ bound.tlas[i].instance_custom_index = i - 1
                    /\ bound.materials[i] = objects[i].material
                    /\ IF objects[i].geometry.kind = "Sphere"
                       THEN /\ bound.tlas[i].acceleration_structure_reference = "sphere_blas"
                            /\ bound.tlas[i].instance_shader_binding_table_record_offset = 1
                            /\ bound.spheres[i] = [center |-> objects[i].geometry.center,
                                                   radius |-> objects[i].geometry.radius]
                       ELSE /\ bound.tlas[i].acceleration_structure_reference = "cube_blas"
                            /\ bound.tlas[i].instance_shader_binding_table_record_offset = 0
                            /\ bound.spheres[i] = [center |-> Vec3Zero, radius |-> 0]]_vars

\* C24 witness: new_frame has bound a scene of a sphere and a cube.
C24_Witness ==
    /\ last.op = "vk_new_frame" /\ vk_bound_scene # None
    /\ Len(vk_bound_scene[1].tlas) = 2
    /\ vk_bound_scene[1].tlas[1].acceleration_structure_reference = "sphere_blas"
    /\ vk_bound_scene[1].tlas[2].acceleration_structure_reference = "cube_blas"
    /\ vk_bound_scene[1].spheres[2].radius = 0

\* C25: the cube mesh that the cube BLAS of every bound instance is built
\* from has 24 vertices and 36 indices, that is 12 triangles, and every
\* triangle lies on one face of the cube, all three of its vertices carrying
\* that face's outward normal; each face has two triangles.
C25_CubeMesh ==
    LET triangle(k) == {CubeVertices[CubeIndices[3 * k - 3 + c] + 1] : c \in 1 .. 3}
        on(k, face) == \A v \in triangle(k) :
                          Dot(v.position, face) = 1 /\ v.normal = face
    IN  vk_bound_scene # None
          => \A i \in 1 .. Len(vk_bound_scene[1].tlas) :
                vk_bound_scene[1].tlas[i].acceleration_structure_reference = "cube_blas"
                  => /\ Len(CubeVertices) = 24
                     /\ Len(CubeIndices) = 36
                     /\ \A k \in 1 .. 12 : \E face \in AxisDirs : on(k, face)
                     /\ \A face \in AxisDirs :
                           Cardinality({k \in 1 .. 12 : on(k, face)}) = 2

\* C30: the readback buffer new_frame allocates has resolution_x *
\* resolution_y * 4 bytes, and no product of the computation left u32.
C30_ReadbackSize ==
    vk_bound_scene # None
      => LET extent == vk_bound_scene[1].extent
             bytes == WideMul(WideMul(<<extent[1] \div 65536, extent[1] % 65536>>,
                                      extent[2]), 4)
         IN  /\ vk_bound_scene[1].output_buffer.len = bytes
             /\ ~vk_bound_scene[1].output_buffer.overflow

\* ---------------------------------------------------------------- CPU frame claims

\* C26: whatever the interleaving of new_frame, render_sample and resolution
\* changes, every pixel of the accumulation buffer has alpha sample_count,
\* and every pixel of an image render_sample returns has alpha 255.
C26_AlphaIsSampleCount ==
    /\ frame_buffer # None
         => \A c \in DOMAIN frame_buffer[1].pixels :
               frame_buffer[1].pixels[c][4] = Unit * sample_count
    /\ last.op = "render_sample" /\ last.ret # None
         => \A c \in DOMAIN last.ret[1].pixels : last.ret[1].pixels[c][4] = 255

\* C27: sample_count never exceeds max_sample_count, and where the two are
\* equal in a frame the frame timer has a duration.
C27_CountWithinCap ==
    /\ sample_count <= config.max_sample_count
    /\ frame_began # None /\ sample_count = config.max_sample_count
         => profiler.frame_timer.duration # None

\* C29: while a frame is in progress the frame timer has no duration: none
\* after a new_frame that leaves samples to render, whatever frames came
\* before, and none after a render_sample that leaves samples to render.
C29_FrameInProgress ==
    /\ [][NewFrameStep /\ config.max_sample_count > 0
            => profiler'.frame_timer.duration = None]_vars
    /\ [][RenderSampleStep /\ last'.ret # None
          /\ sample_count' < config.max_sample_count
            => profiler'.frame_timer.duration = None]_vars

====
